---- MODULE Spec2Model ----
(***************************************************************************)
(* The pose overlay of the camera viewfinder: the shared Transform kept by *)
(* App (poseTransform), the gesture handlers of WireframeOverlay that      *)
(* write it, and the operations of App that reset it.                      *)
(*                                                                         *)
(* Numbers.  Coordinates and translations are whole pixels.  Angles and    *)
(* rotations are whole degrees: the directions between the touch points    *)
(* used are multiples of 45 degrees.  A distance or a scale is a           *)
(* non-negative JavaScript number and is carried by its square, as a       *)
(* reduced fraction n/d, so that Math.hypot stays exact on the touch       *)
(* points used; the two non-finite values a division of distances can      *)
(* give, Infinity and NaN, are values of the same type.                    *)
(*                                                                         *)
(* Rendering.  WireframeOverlay receives poseTransform as its transform    *)
(* prop and App re-renders it after every state change, so the handlers of *)
(* an event read the poseTransform committed before that event.  The      *)
(* effect that copies poseTransform into poseTransformRef runs after the   *)
(* render and is a step of its own.                                        *)
(*                                                                         *)
(* Coaching.  startLiveSession, stopLiveSession and the callbacks of the   *)
(* streaming session are modelled with the refs they write.  A session     *)
(* record holds what one call of startLiveSession created: the output and  *)
(* input AudioContext, the promise of ai.live.connect, the connection, the *)
(* microphone stream and the sampler's interval.  Every await of a promise *)
(* that is still pending is a point where other steps run.  The forced     *)
(* first turn, the debug image and the instruction text are left out: they *)
(* write none of the state modelled here.  Audio times are whole ticks of  *)
(* the clock of the AudioContext.                                          *)
(*                                                                         *)
(* Camera.  A camera stream is a record of cameraStreams with the camera   *)
(* it shows and whether its tracks are live; a getUserMedia, an            *)
(* applyConstraints and the 200 ms of the torch are answered in steps of   *)
(* their own, in any order.  The numbers of the compositing are exact      *)
(* fractions.  A zoom level is counted in hundredths.  The image of a pose *)
(* loads in a step of its own; the gallery and the zoom slider are         *)
(* modelled with the state their handlers read and write.                  *)
(***************************************************************************)
EXTENDS Integers, Sequences, FiniteSets, TLC

(* Bounds of the model. *)
MaxFingers == 2

MaxEvents == 6

(* The grid of the geometry measurements has (MaxGrid + 1)^2 points. *)
MaxGrid == 2

(* Coaching: calls of startLiveSession, and events of the user (touches    *)
(* included) and of the remote end while the coaching is modelled.         *)
MaxSessions == 1

(* Calls of startLiveSession where a coach is started again *)
MaxRestarts == 2

MaxLiveEvents == 3

MaxTimers == 1

(* Playback: audio chunks received, ticks of the audio clock, and the      *)
(* longest chunk in ticks.                                                 *)
MaxChunks == 3

MaxTime == 4

MaxDuration == 2

(* Pose images: poses generated while the loads of their images are        *)
(* followed.                                                               *)
MaxPoses == 2

(* Touch positions (clientX, clientY) the fingers are placed on. *)
Points ==
  { [x |-> 0, y |-> 0], [x |-> 100, y |-> 0], [x |-> 200, y |-> 0],
    [x |-> 100, y |-> 100] }

(* Where a finger that presses a control above the overlay rests. *)
ControlPoints == { [x |-> 200, y |-> 0] }

(* ---------------------------------------------------------------------- *)
(* JavaScript numbers of the scale path                                    *)
(* ---------------------------------------------------------------------- *)

RECURSIVE GCD(_, _)
GCD(a, b) == IF b = 0 THEN a ELSE GCD(b, a % b)

(* The non-negative number whose square is n/d (d > 0). *)
Root(n, d) ==
  LET g == GCD(n, d) IN [k |-> "fin", n |-> n \div g, d |-> d \div g]

NaN == [k |-> "nan", n |-> 0, d |-> 0]

Infinity == [k |-> "inf", n |-> 0, d |-> 0]

IsZero(a) == a.k = "fin" /\ a.n = 0

(* a <= b for two numbers that are not NaN *)
NumLeq(a, b) ==
  IF a.k = "inf" THEN b.k = "inf"
  ELSE IF b.k = "inf" THEN TRUE
  ELSE a.n * b.d <= b.n * a.d

(* a / b *)
NumDiv(a, b) ==
  IF a.k = "nan" \/ b.k = "nan" THEN NaN
  ELSE IF a.k = "inf" THEN (IF b.k = "inf" THEN NaN ELSE Infinity)
  ELSE IF b.k = "inf" THEN Root(0, 1)
  ELSE IF b.n = 0 THEN (IF a.n = 0 THEN NaN ELSE Infinity)
  ELSE Root(a.n * b.d, a.d * b.n)

(* a * b *)
NumMul(a, b) ==
  IF a.k = "nan" \/ b.k = "nan" THEN NaN
  ELSE IF a.k = "inf" \/ b.k = "inf"
       THEN (IF IsZero(a) \/ IsZero(b) THEN NaN ELSE Infinity)
  ELSE Root(a.n * b.n, a.d * b.d)

(* Math.min and Math.max: NaN if either argument is NaN *)
MathMin(a, b) ==
  IF a.k = "nan" \/ b.k = "nan" THEN NaN ELSE IF NumLeq(a, b) THEN a ELSE b

MathMax(a, b) ==
  IF a.k = "nan" \/ b.k = "nan" THEN NaN ELSE IF NumLeq(a, b) THEN b ELSE a

(* The literals 0.2 and 5 of handleTouchMove. *)
MinScale == Root(1, 25)

MaxScale == Root(25, 1)

(* ---------------------------------------------------------------------- *)
(* utils/geometry.ts                                                       *)
(* ---------------------------------------------------------------------- *)

Abs(v) == IF v < 0 THEN -v ELSE v

(* Math.atan2(dy, dx) * 180 / Math.PI for dx > 0, dy > 0, on the           *)
(* directions between the touch points.                                    *)
AtanQ1(dy, dx) ==
  CASE dy = dx -> 45

(* Math.atan2(dy, dx) * 180 / Math.PI, in (-180, 180]; atan2(0, 0) = 0. *)
Atan2Deg(dy, dx) ==
  IF dy = 0 THEN (IF dx >= 0 THEN 0 ELSE 180)
  ELSE IF dx = 0 THEN (IF dy > 0 THEN 90 ELSE -90)
  ELSE LET t == AtanQ1(Abs(dy), Abs(dx)) IN
       IF dx > 0 THEN (IF dy > 0 THEN t ELSE -t)
       ELSE (IF dy > 0 THEN 180 - t ELSE t - 180)

getDistance(p1, p2) ==
  Root((p2.x - p1.x) * (p2.x - p1.x) + (p2.y - p1.y) * (p2.y - p1.y), 1)

(* Variant of getAngle that forgets the sense of the vector. *)
getAngleUndirected(p1, p2) == Abs(Atan2Deg(p2.y - p1.y, p2.x - p1.x))

getAngle(p1, p2) == Atan2Deg(p2.y - p1.y, p2.x - p1.x)

(* The coordinates of Points are even, so the halves are exact. *)
getMidpoint(p1, p2) ==
  [x |-> (p1.x + p2.x) \div 2, y |-> (p1.y + p2.y) \div 2]

(* ---------------------------------------------------------------------- *)
(* State                                                                   *)
(* ---------------------------------------------------------------------- *)

VARIABLES
  activePose,         \* App: NoPose (null) or the generated pose
  poseTransform,      \* App: the shared Transform
  isGeneratingPose,   \* App: a pose generation is in flight
  generations,        \* calls of handleGeneratePose past the guard that have not ended
  fingers,            \* the touches on the screen, e.touches of the next event
  activeTouches,      \* WireframeOverlay: Map of TouchState, in insertion order
  initialTransform,   \* WireframeOverlay: the baseline Transform
  initialGestureData, \* WireframeOverlay: NULL or the gesture reference
  lastEvent,          \* the last handler that ran on the overlay's state or the Transform
  refTouches,         \* touches counted by the touch-start that set the reference
  nEvents,            \* touch events dispatched so far
  geometry,           \* the points and angles of a measurement of utils/geometry.ts
  isLiveCoaching,     \* App: the coaching flag
  error,              \* App: the notice shown to the user, or NoError
  sessions,           \* what each call of startLiveSession acquired, and its connection
  liveSessionRef,     \* App refs: 0 (null) or the number of the session they hold
  audioContextRef,
  audioInputContextRef,
  micStreamRef,
  videoIntervalRef,
  stops,              \* the calls of stopLiveSession suspended at an await
  lastSend,           \* the last sendRealtimeInput made by a tick or a microphone callback
  unhandled,          \* an exception or a rejection no handler took has happened
  poseTransformRef,   \* App: the ref the sampler reads the Transform from
  lastFrame,          \* the Transform the last sampler tick composited with
  nLive,              \* events of the user and of the remote end so far
  facingMode,         \* App: the camera in use
  zoomLevel,          \* App: the zoom of the camera, in hundredths
  zoomCapabilities,   \* App: NULL or the least and greatest zoom of the camera
  gallery,            \* App: the photos taken
  stream,             \* App: 0 (null) or the number of the camera stream set last
  cameraStreams,      \* the camera streams getUserMedia has given, with their tracks
  cameraRequests,     \* calls of startCamera awaiting getUserMedia
  effectStream,       \* the stream the closures of the camera effect hold
  flashEnabled,       \* App: the flash button is on
  captures,           \* calls of capturePhoto suspended at an await
  zoomRequests,       \* calls of handleZoomChange awaiting applyConstraints
  errorTimers,        \* timers set to clear the notice
  currentTime,        \* the clock of the output AudioContext of audioContextRef
  nextAudioStartTimeRef, \* App ref: the end of the playback scheduled last
  scheduled,          \* the calls of source.start, in the order they were made
  pixel,              \* a pixel of processImageForTransparency
  composite,          \* the drawing of the pose a sampler tick makes
  poseImages,         \* the images of the poses: loads under way and poseImageRef
  isGalleryOpen,      \* App: the gallery is shown
  selectedImageIndex, \* App: NULL or the index (from 0) of the photo under review
  zoomSlider          \* ZoomSlider: isScrubbing, startZoom, timers set, finger on it

vars ==
  <<activePose, poseTransform, isGeneratingPose, generations, fingers,
    activeTouches, initialTransform, initialGestureData, lastEvent,
    refTouches, nEvents, geometry,
    isLiveCoaching, error, sessions, liveSessionRef, audioContextRef,
    audioInputContextRef, micStreamRef, videoIntervalRef, stops, lastSend,
    unhandled, poseTransformRef, lastFrame, nLive,
    facingMode, zoomLevel, zoomCapabilities, gallery, stream, cameraStreams,
    cameraRequests, effectStream, flashEnabled, captures, zoomRequests, errorTimers,
    currentTime, nextAudioStartTimeRef, scheduled, pixel, composite, poseImages,
    isGalleryOpen, selectedImageIndex, zoomSlider>>

overlayVars == <<activeTouches, initialTransform, initialGestureData, refTouches>>

(* What the gestures and the resets of the Transform leave alone *)
liveVars ==
  <<isLiveCoaching, error, sessions, liveSessionRef, audioContextRef,
    audioInputContextRef, micStreamRef, videoIntervalRef, stops, lastSend,
    unhandled>>

coachVars ==
  <<isLiveCoaching, sessions, liveSessionRef, audioContextRef, audioInputContextRef,
    micStreamRef, videoIntervalRef, stops, lastSend, unhandled>>

gestureVars ==
  <<activePose, poseTransform, isGeneratingPose, generations, fingers, overlayVars, lastEvent,
    nEvents>>

cameraVars ==
  <<facingMode, zoomLevel, zoomCapabilities, gallery, stream, cameraStreams, cameraRequests,
    effectStream, flashEnabled, captures, zoomRequests>>

playbackVars == <<currentTime, nextAudioStartTimeRef, scheduled>>

(* The inputs and results of the pure functions measured on their own *)
pureVars == <<geometry, pixel, composite>>

(* State of App that is followed in a specification of its own *)
asideVars == <<poseImages, isGalleryOpen, selectedImageIndex, zoomSlider>>

otherVars == <<pureVars, asideVars>>

appVars ==
  <<otherVars, liveVars, poseTransformRef, lastFrame, nLive, cameraVars, errorTimers,
    playbackVars>>

NULL == <<>>

(* lastEvent after a touch-move; "repeated" when the move before it had    *)
(* delivered the same touches.                                             *)
MoveEvents == {"touchmove", "touchmove repeated"}

NoPose == "null"

GeneratedPose == "AI Generated"

Some(v) == <<v>>

INITIAL_TRANSFORM == [x |-> 0, y |-> 0, scale |-> Root(1, 1), rotation |-> 0]

GestureInit ==
  /\ activePose = NoPose
  /\ poseTransform = INITIAL_TRANSFORM
  /\ isGeneratingPose = FALSE
  /\ generations = 0
  /\ fingers = <<>>
  /\ activeTouches = <<>>
  /\ initialTransform = INITIAL_TRANSFORM
  /\ initialGestureData = NULL
  /\ lastEvent = "init"
  /\ refTouches = 0
  /\ nEvents = 0

NoError == "null"

GenerateNotice == "generation failed"

LiveInit ==
  /\ isLiveCoaching = FALSE
  /\ error = NoError
  /\ sessions = <<>>
  /\ liveSessionRef = 0
  /\ audioContextRef = 0
  /\ audioInputContextRef = 0
  /\ micStreamRef = 0
  /\ videoIntervalRef = 0
  /\ stops = [output |-> 0, input |-> 0]
  /\ lastSend = NULL
  /\ unhandled = FALSE
  /\ poseTransformRef = INITIAL_TRANSFORM
  /\ lastFrame = NULL
  /\ nLive = 0
  /\ poseImages = [made |-> 0, active |-> 0, loading |-> {}, poseImageRef |-> 0]
  /\ isGalleryOpen = FALSE
  /\ selectedImageIndex = NULL
  /\ zoomSlider = [isScrubbing |-> FALSE, startZoom |-> 0, timers |-> 0, touching |-> FALSE]
  /\ facingMode = "environment"
  /\ zoomLevel = 100
  /\ zoomCapabilities = NULL
  /\ gallery = <<>>
  /\ stream = 0
  /\ cameraStreams = <<>>
  /\ cameraRequests = <<[facing |-> "environment"]>>
  /\ effectStream = 0
  /\ flashEnabled = FALSE
  /\ captures = <<>>
  /\ zoomRequests = 0
  /\ errorTimers = 0
  /\ currentTime = 0
  /\ nextAudioStartTimeRef = 0
  /\ scheduled = <<>>

Init ==
  /\ GestureInit
  /\ geometry = NULL
  /\ pixel = NULL
  /\ composite = NULL
  /\ LiveInit

(* ---------------------------------------------------------------------- *)
(* WireframeOverlay                                                        *)
(* ---------------------------------------------------------------------- *)

(* Map.set: a key already present keeps its place and takes the new value *)
MapSet(map, t) ==
  IF \E i \in 1..Len(map) : map[i].id = t.id
  THEN [i \in 1..Len(map) |-> IF map[i].id = t.id THEN t ELSE map[i]]
  ELSE Append(map, t)

RECURSIVE MapFrom(_, _)
MapFrom(map, touches) ==
  IF touches = <<>> THEN map
  ELSE MapFrom(MapSet(map, Head(touches)), Tail(touches))

(* e.touches of an event: every touch on the screen *)
TouchList(fs) == [i \in 1..Len(fs) |-> [id |-> fs[i].id, x |-> fs[i].x, y |-> fs[i].y]]

updateTouches(touches) == MapFrom(<<>>, touches)

(* The reference handleTouchStart records for the touches, or the old one *)
GestureReference(points, old) ==
  IF Len(points) = 2
  THEN Some([distance |-> getDistance(points[1], points[2]),
             angle |-> getAngle(points[1], points[2]),
             center |-> getMidpoint(points[1], points[2])])
  ELSE IF Len(points) = 1
  THEN Some([distance |-> Root(0, 1),
             angle |-> 0,
             center |-> [x |-> points[1].x, y |-> points[1].y]])
  ELSE old

handleTouchStart(touches) ==
  /\ activeTouches' = updateTouches(touches)
  /\ initialTransform' = poseTransform
  /\ initialGestureData' = GestureReference(activeTouches', initialGestureData)
  /\ refTouches' = IF Len(activeTouches') \in {1, 2} THEN Len(activeTouches') ELSE refTouches
  /\ UNCHANGED poseTransform

(* Variants of the two-touch branch, used to test the properties below:    *)
(* one that leaves the translation at the baseline (the centre is taken as *)
(* unchanged), one that normalises the rotation into (-180, 180].          *)
TwoTouchTransformCenterKept(touches, initial, initialTrans) ==
  LET newDist == getDistance(touches[1], touches[2])
      newAngle == getAngle(touches[1], touches[2])
      scaleMultiplier == NumDiv(newDist, initial.distance)
      rotationDelta == newAngle - initial.angle
  IN [x |-> initialTrans.x,
      y |-> initialTrans.y,
      scale |-> MathMax(MinScale, MathMin(NumMul(initialTrans.scale, scaleMultiplier), MaxScale)),
      rotation |-> initialTrans.rotation + rotationDelta]

TwoTouchTransformWrapped(touches, initial, initialTrans) ==
  LET newDist == getDistance(touches[1], touches[2])
      newAngle == getAngle(touches[1], touches[2])
      newCenter == getMidpoint(touches[1], touches[2])
      scaleMultiplier == NumDiv(newDist, initial.distance)
      rotationDelta == newAngle - initial.angle
      dx == newCenter.x - initial.center.x
      dy == newCenter.y - initial.center.y
      r == (initialTrans.rotation + rotationDelta) % 360
  IN [x |-> initialTrans.x + dx,
      y |-> initialTrans.y + dy,
      scale |-> MathMax(MinScale, MathMin(NumMul(initialTrans.scale, scaleMultiplier), MaxScale)),
      rotation |-> IF r > 180 THEN r - 360 ELSE r]

(* The Transform the two-touch branch of handleTouchMove publishes *)
TwoTouchTransform(touches, initial, initialTrans) ==
  LET newDist == getDistance(touches[1], touches[2])
      newAngle == getAngle(touches[1], touches[2])
      newCenter == getMidpoint(touches[1], touches[2])
      scaleMultiplier == NumDiv(newDist, initial.distance)
      rotationDelta == newAngle - initial.angle
      dx == newCenter.x - initial.center.x
      dy == newCenter.y - initial.center.y
  IN [x |-> initialTrans.x + dx,
      y |-> initialTrans.y + dy,
      scale |-> MathMax(MinScale, MathMin(NumMul(initialTrans.scale, scaleMultiplier), MaxScale)),
      rotation |-> initialTrans.rotation + rotationDelta]

(* Variant of the one-touch branch that adds the delta to the current      *)
(* translation instead of the baseline's.                                  *)
OneTouchTransformIncremental(touches, initial, initialTrans, transform) ==
  LET touch == touches[1]
      dx == touch.x - initial.center.x
      dy == touch.y - initial.center.y
  IN [transform EXCEPT !.x = transform.x + dx, !.y = transform.y + dy]

(* The Transform the one-touch branch of handleTouchMove publishes *)
OneTouchTransform(touches, initial, initialTrans, transform) ==
  LET touch == touches[1]
      dx == touch.x - initial.center.x
      dy == touch.y - initial.center.y
  IN [transform EXCEPT !.x = initialTrans.x + dx, !.y = initialTrans.y + dy]

(* What handleTouchMove leaves in poseTransform *)
MoveTransform(touches, initial, initialTrans, transform) ==
  IF Len(touches) = 2 /\ initial # NULL
  THEN TwoTouchTransform(touches, initial[1], initialTrans)
  ELSE IF Len(touches) = 1 /\ initial # NULL
  THEN OneTouchTransform(touches, initial[1], initialTrans, transform)
  ELSE transform

handleTouchMove(touches) ==
  /\ activeTouches' = updateTouches(touches)
  /\ poseTransform' =
       MoveTransform(activeTouches', initialGestureData, initialTransform, poseTransform)
  /\ UNCHANGED <<initialTransform, initialGestureData, refTouches>>

(* Variant of handleTouchEnd that keeps the gesture reference. *)
handleTouchEndKeepsReference ==
  /\ activeTouches' = <<>>
  /\ UNCHANGED <<initialGestureData, initialTransform, refTouches, poseTransform>>

handleTouchEnd ==
  /\ activeTouches' = <<>>
  /\ initialGestureData' = NULL
  /\ UNCHANGED <<initialTransform, refTouches, poseTransform>>

(* ---------------------------------------------------------------------- *)
(* Touch events of the browser                                             *)
(* ---------------------------------------------------------------------- *)

FreshId == CHOOSE n \in 0..MaxFingers : \A i \in 1..Len(fingers) : fingers[i].id # n

Without(fs, i) == [j \in 1..(Len(fs) - 1) |-> IF j < i THEN fs[j] ELSE fs[j + 1]]

(* A finger lands at p, on the overlay (which is there while a pose is     *)
(* active) or on a control above it; only a touch that started on the      *)
(* overlay has its events delivered to the overlay's handlers.             *)
TouchStart(p, onOverlay) ==
  /\ nEvents < MaxEvents
  /\ Len(fingers) < MaxFingers
  /\ IF onOverlay THEN activePose # NoPose /\ p \in Points ELSE p \in ControlPoints
  /\ fingers' = Append(fingers, [id |-> FreshId, x |-> p.x, y |-> p.y, overlay |-> onOverlay])
  /\ IF onOverlay
     THEN handleTouchStart(TouchList(fingers')) /\ lastEvent' = "touchstart"
     ELSE UNCHANGED <<overlayVars, poseTransform, lastEvent>>
  /\ nEvents' = nEvents + 1
  /\ UNCHANGED <<activePose, isGeneratingPose, generations>>
  /\ UNCHANGED appVars

(* One finger more than MaxFingers lands on the overlay: the touch-start   *)
(* lists more than two touches.                                            *)
TouchStartCrowded(p) ==
  /\ nEvents < MaxEvents
  /\ Len(fingers) = MaxFingers
  /\ activePose # NoPose
  /\ p \in Points
  /\ fingers' = Append(fingers, [id |-> FreshId, x |-> p.x, y |-> p.y, overlay |-> TRUE])
  /\ handleTouchStart(TouchList(fingers'))
  /\ lastEvent' = "touchstart"
  /\ nEvents' = nEvents + 1
  /\ UNCHANGED <<activePose, isGeneratingPose, generations>>
  /\ UNCHANGED appVars

(* Finger i, which began on the overlay, reports a touch-move at p (p may  *)
(* be where it already is); a finger pressing a control stays where it is. *)
TouchMove(i, p) ==
  /\ nEvents < MaxEvents
  /\ i \in 1..Len(fingers)
  /\ fingers[i].overlay
  /\ fingers' = [fingers EXCEPT ![i].x = p.x, ![i].y = p.y]
  /\ handleTouchMove(TouchList(fingers'))
  /\ lastEvent' = IF lastEvent \in MoveEvents /\ activeTouches' = activeTouches
                  THEN "touchmove repeated" ELSE "touchmove"
  /\ nEvents' = nEvents + 1
  /\ UNCHANGED <<activePose, isGeneratingPose, generations>>
  /\ UNCHANGED appVars

(* e.touches is a TouchList whose order the platform chooses: a touch-move  *)
(* of finger i that lists the two touches on the screen in the opposite    *)
(* order to the order they landed in.                                      *)
Reverse(s) == [j \in 1..Len(s) |-> s[Len(s) + 1 - j]]

TouchMoveReordered(i, p) ==
  /\ nEvents < MaxEvents
  /\ Len(fingers) = 2
  /\ i \in 1..Len(fingers)
  /\ fingers[i].overlay
  /\ fingers' = [fingers EXCEPT ![i].x = p.x, ![i].y = p.y]
  /\ handleTouchMove(Reverse(TouchList(fingers')))
  /\ lastEvent' = IF lastEvent \in MoveEvents /\ activeTouches' = activeTouches
                  THEN "touchmove repeated" ELSE "touchmove"
  /\ nEvents' = nEvents + 1
  /\ UNCHANGED <<activePose, isGeneratingPose, generations>>
  /\ UNCHANGED appVars

(* Finger i lifts, or its touch is cancelled *)
TouchEnd(i) ==
  /\ nEvents < MaxEvents
  /\ i \in 1..Len(fingers)
  /\ fingers' = Without(fingers, i)
  /\ IF fingers[i].overlay
     THEN handleTouchEnd /\ lastEvent' = "touchend"
     ELSE UNCHANGED <<overlayVars, poseTransform, lastEvent>>
  /\ nEvents' = nEvents + 1
  /\ UNCHANGED <<activePose, isGeneratingPose, generations>>
  /\ UNCHANGED appVars

(* ---------------------------------------------------------------------- *)
(* App                                                                     *)
(* ---------------------------------------------------------------------- *)

(* Variant of handleGeneratePose without the guard on the generating flag  *)
(* (up to MaxPoses calls at once)                                          *)
handleGeneratePoseUnguarded ==
  /\ generations < MaxPoses
  /\ isGeneratingPose' = TRUE
  /\ generations' = generations + 1
  /\ UNCHANGED <<activePose, poseTransform, fingers, overlayVars, lastEvent, nEvents>>
  /\ UNCHANGED appVars

(* handleGeneratePose up to its first await *)
handleGeneratePose ==
  /\ ~isGeneratingPose
  /\ isGeneratingPose' = TRUE
  /\ generations' = generations + 1
  /\ UNCHANGED <<activePose, poseTransform, fingers, overlayVars, lastEvent, nEvents>>
  /\ UNCHANGED appVars

(* The collaborator returned an image: the new pose becomes active *)
GeneratePoseDone ==
  /\ generations > 0
  /\ activePose' = GeneratedPose
  /\ poseTransform' = INITIAL_TRANSFORM
  /\ isGeneratingPose' = FALSE
  /\ generations' = generations - 1
  /\ lastEvent' = "reset"
  /\ UNCHANGED <<fingers, overlayVars, nEvents>>
  /\ UNCHANGED appVars

(* Variant of the failure path that also drops the active pose *)
GeneratePoseFailedClearsPose ==
  /\ generations > 0
  /\ errorTimers < MaxTimers
  /\ isGeneratingPose' = FALSE
  /\ generations' = generations - 1
  /\ activePose' = NoPose
  /\ error' = GenerateNotice
  /\ errorTimers' = errorTimers + 1
  /\ UNCHANGED <<poseTransform, fingers, overlayVars, lastEvent, nEvents>>
  /\ UNCHANGED <<otherVars, coachVars, poseTransformRef, lastFrame, nLive, cameraVars,
                 playbackVars>>

(* No image, or the call threw: a notice is raised and a timer of three   *)
(* seconds is set to clear it; the finally block ends the generation.      *)
GeneratePoseFailed ==
  /\ generations > 0
  /\ errorTimers < MaxTimers
  /\ isGeneratingPose' = FALSE
  /\ generations' = generations - 1
  /\ error' = GenerateNotice
  /\ errorTimers' = errorTimers + 1
  /\ UNCHANGED <<activePose, poseTransform, fingers, overlayVars, lastEvent, nEvents>>
  /\ UNCHANGED <<otherVars, coachVars, poseTransformRef, lastFrame, nLive, cameraVars,
                 playbackVars>>

(* A timer set by handleGeneratePose fires: setError(null) *)
ErrorTimerFires ==
  /\ errorTimers > 0
  /\ errorTimers' = errorTimers - 1
  /\ error' = NoError
  /\ UNCHANGED <<gestureVars, otherVars, playbackVars, coachVars, poseTransformRef, lastFrame, nLive,
                 cameraVars>>

(* The button of the notice: setError(null) *)
dismissError ==
  /\ error # NoError
  /\ error' = NoError
  /\ UNCHANGED <<gestureVars, otherVars, playbackVars, coachVars, poseTransformRef, lastFrame, nLive,
                 cameraVars, errorTimers>>

(* Variant of handleClearPose that leaves the Transform as it is *)
handleClearPoseKeepsTransform ==
  /\ activePose # NoPose
  /\ \A i \in 1..Len(fingers) : ~fingers[i].overlay
  /\ activePose' = NoPose
  /\ lastEvent' = "reset"
  /\ UNCHANGED <<poseTransform, isGeneratingPose, generations, fingers, overlayVars, nEvents>>
  /\ UNCHANGED appVars

(* The tap on the clear button of the top bar, taken while no touch is     *)
(* held on the overlay; the overlay's element goes away with the pose.     *)
handleClearPose ==
  /\ activePose # NoPose
  /\ \A i \in 1..Len(fingers) : ~fingers[i].overlay
  /\ activePose' = NoPose
  /\ poseTransform' = INITIAL_TRANSFORM
  /\ lastEvent' = "reset"
  /\ UNCHANGED <<isGeneratingPose, generations, fingers, overlayVars, nEvents>>
  /\ UNCHANGED appVars

Next ==
  \/ \E p \in Points \cup ControlPoints, onOverlay \in BOOLEAN : TouchStart(p, onOverlay)
  \/ \E i \in 1..MaxFingers, p \in Points : TouchMove(i, p)
  \/ \E i \in 1..MaxFingers : TouchEnd(i)
  \/ handleGeneratePose
  \/ GeneratePoseDone
  \/ GeneratePoseFailed
  \/ handleClearPose
  \/ ErrorTimerFires
  \/ dismissError

Spec == Init /\ [][Next]_vars

(* The generations of poses where every call of the collaborator ends, by *)
(* an image, by none or by an exception                                    *)
GenerateNext ==
  \/ \E p \in Points \cup ControlPoints, onOverlay \in BOOLEAN : TouchStart(p, onOverlay)
  \/ \E i \in 1..MaxFingers : TouchEnd(i)
  \/ handleGeneratePose
  \/ GeneratePoseDone
  \/ GeneratePoseFailed
  \/ handleClearPose
  \/ ErrorTimerFires
  \/ dismissError

GenerateSpec ==
  /\ Init
  /\ [][GenerateNext]_vars
  /\ WF_vars(GeneratePoseDone \/ GeneratePoseFailed)

(* The overlay under more fingers than a gesture uses *)
CrowdNext ==
  \/ \E p \in Points \cup ControlPoints, onOverlay \in BOOLEAN : TouchStart(p, onOverlay)
  \/ \E p \in Points : TouchStartCrowded(p)
  \/ \E i \in 1..MaxFingers + 1, p \in Points : TouchMove(i, p)
  \/ \E i \in 1..MaxFingers + 1 : TouchEnd(i)
  \/ handleGeneratePose
  \/ GeneratePoseDone

CrowdSpec == Init /\ [][CrowdNext]_vars

(* The gestures with touch lists in either order *)
OrderNext ==
  \/ Next
  \/ \E i \in 1..MaxFingers, p \in Points : TouchMoveReordered(i, p)

OrderSpec == Init /\ [][OrderNext]_vars

(* ---------------------------------------------------------------------- *)
(* Measurements of utils/geometry.ts on a grid                             *)
(* ---------------------------------------------------------------------- *)

GridPoints == { [x |-> 100 * i, y |-> 100 * j] : i \in 0..MaxGrid, j \in 0..MaxGrid }

(* The direction from a to b is a multiple of 45 degrees (or a = b) *)
Aligned(a, b) ==
  \/ a.x = b.x
  \/ a.y = b.y
  \/ Abs(b.x - a.x) = Abs(b.y - a.y)

GeometryInit ==
  /\ GestureInit
  /\ LiveInit
  /\ pixel = NULL
  /\ composite = NULL
  /\ \E a \in GridPoints, b \in GridPoints :
       /\ Aligned(a, b)
       /\ geometry = Some([a |-> a, b |-> b, measured |-> FALSE, ab |-> 0, ba |-> 0])

(* getAngle applied to the two points, in both senses *)
MeasureAngles ==
  /\ geometry # NULL
  /\ ~geometry[1].measured
  /\ geometry' = Some([geometry[1] EXCEPT !.measured = TRUE,
                                         !.ab = getAngle(geometry[1].a, geometry[1].b),
                                         !.ba = getAngle(geometry[1].b, geometry[1].a)])
  /\ UNCHANGED <<gestureVars, liveVars, poseTransformRef, lastFrame, nLive, cameraVars,
                 errorTimers, playbackVars, pixel, composite, asideVars>>

GeometryNext == MeasureAngles

GeometrySpec == GeometryInit /\ [][GeometryNext]_vars

(* ---------------------------------------------------------------------- *)
(* App: the live coaching session                                          *)
(*                                                                         *)
(* A call of startLiveSession that gets as far as the output AudioContext  *)
(* is session number s of sessions.  The remote end, the microphone and    *)
(* the timers are the environment: it opens, closes or fails a connection, *)
(* settles the promise ai.live.connect returned, grants or denies the      *)
(* microphone, and fires the sampler and the audio processor.  Every await *)
(* of a promise that is still pending is a point where other steps run.    *)
(* ---------------------------------------------------------------------- *)

StartNotice == "cannot start coach"

ConnectionNotice == "connection lost"

StartOutcomes == {"connecting", "throws before context", "throws after context"}

(* What a call of startLiveSession leaves behind at its return *)
NewSession(outcome) ==
  [outCtx   |-> IF outcome = "throws before context" THEN "none" ELSE "open",
   promise  |-> IF outcome = "connecting" THEN "pending" ELSE "none",
   conn     |-> IF outcome = "connecting" THEN "connecting" ELSE "none",
   closedBy |-> "none",
   onclose  |-> FALSE,
   onopen   |-> "idle",
   mic      |-> "none",
   inCtx    |-> "none",
   interval |-> "none",
   waiting  |-> "none",
   stopsWaiting |-> 0,
   stopped  |-> FALSE,
   noticed  |-> outcome # "connecting"]

(* The refs and state the coaching code reads and writes, as one value *)
LiveState ==
  [isLiveCoaching |-> isLiveCoaching, error |-> error, sessions |-> sessions,
   liveSessionRef |-> liveSessionRef, audioContextRef |-> audioContextRef,
   audioInputContextRef |-> audioInputContextRef, micStreamRef |-> micStreamRef,
   videoIntervalRef |-> videoIntervalRef, stops |-> stops, lastSend |-> lastSend,
   unhandled |-> unhandled]

SetLive(L) ==
  /\ isLiveCoaching' = L.isLiveCoaching
  /\ error' = L.error
  /\ sessions' = L.sessions
  /\ liveSessionRef' = L.liveSessionRef
  /\ audioContextRef' = L.audioContextRef
  /\ audioInputContextRef' = L.audioInputContextRef
  /\ micStreamRef' = L.micStreamRef
  /\ videoIntervalRef' = L.videoIntervalRef
  /\ stops' = L.stops
  /\ lastSend' = L.lastSend
  /\ unhandled' = L.unhandled

(* stopLiveSession, "4. Stop Mic Stream" to its end *)
StopFinish(L) ==
  LET L1 == IF L.micStreamRef # 0
            THEN [L EXCEPT !.sessions[L.micStreamRef].mic = "stopped", !.micStreamRef = 0]
            ELSE L
  IN [L1 EXCEPT !.isLiveCoaching = FALSE,
                !.sessions = [s \in 1..Len(L1.sessions) |->
                                [L1.sessions[s] EXCEPT !.stopped = TRUE]]]

(* stopLiveSession at the input AudioContext: close() of a context that is *)
(* open is awaited; close() of a closed one rejects at once and is caught. *)
StopCloseInput(L) ==
  IF L.audioInputContextRef = 0 THEN StopFinish(L)
  ELSE IF L.sessions[L.audioInputContextRef].inCtx = "open"
  THEN [L EXCEPT !.sessions[L.audioInputContextRef].inCtx = "closed",
                 !.stops.input = @ + 1]
  ELSE StopFinish([L EXCEPT !.audioInputContextRef = 0])

(* stopLiveSession at the output AudioContext *)
StopCloseOutput(L) ==
  IF L.audioContextRef = 0 THEN StopCloseInput(L)
  ELSE IF L.sessions[L.audioContextRef].outCtx = "open"
  THEN [L EXCEPT !.sessions[L.audioContextRef].outCtx = "closed",
                 !.stops.output = @ + 1]
  ELSE StopCloseInput([L EXCEPT !.audioContextRef = 0])

(* stopLiveSession, "2. Clear Interval" *)
StopClearInterval(L) ==
  StopCloseOutput(
    IF L.videoIntervalRef # 0
    THEN [L EXCEPT !.sessions[L.videoIntervalRef].interval = "cleared",
                   !.videoIntervalRef = 0]
    ELSE L)

(* Variant of stopLiveSession without the catch around the await of the    *)
(* connect promise: a rejection ends the call there.                       *)
StopCloseSessionUncaught(L, s) ==
  IF L.sessions[s].promise = "rejected" THEN [L EXCEPT !.unhandled = TRUE]
  ELSE LET closing == L.sessions[s].promise = "resolved" /\ L.sessions[s].conn = "open"
           L1 == IF closing
                 THEN [L EXCEPT !.sessions[s].conn = "closed",
                                !.sessions[s].closedBy = "client",
                                !.sessions[s].onclose = TRUE]
                 ELSE L
       IN StopClearInterval([L1 EXCEPT !.liveSessionRef = 0])

(* stopLiveSession after its await of the connect promise of session s     *)
(* has returned or thrown: session.close() if there is a session, then     *)
(* liveSessionRef.current = null.                                          *)
StopCloseSession(L, s) ==
  LET closing == L.sessions[s].promise = "resolved" /\ L.sessions[s].conn = "open"
      L1 == IF closing
            THEN [L EXCEPT !.sessions[s].conn = "closed",
                           !.sessions[s].closedBy = "client",
                           !.sessions[s].onclose = TRUE]
            ELSE L
  IN StopClearInterval([L1 EXCEPT !.liveSessionRef = 0])

(* A call of stopLiveSession, up to its first await of a pending promise *)
stopLiveSession(L) ==
  IF L.liveSessionRef = 0 THEN StopClearInterval(L)
  ELSE IF L.sessions[L.liveSessionRef].promise = "pending"
  THEN [L EXCEPT !.sessions[L.liveSessionRef].stopsWaiting = @ + 1]
  ELSE StopCloseSession(L, L.liveSessionRef)

(* sendRealtimeInput on the session: on a connection that is closed it is  *)
(* dropped, or throws (throws = TRUE) inside the then-callback.            *)
Deliver(L, s, kind, throws) ==
  [L EXCEPT !.lastSend = Some([kind |-> kind,
                               conn |-> L.sessions[s].conn,
                               afterStop |-> L.sessions[s].stopped]),
            !.unhandled = @ \/ (throws /\ L.sessions[s].conn # "open")]

(* sessionPromise.then(session => session.sendRealtimeInput(...)), with no *)
(* rejection handler                                                       *)
SendRealtimeInput(L, s, kind, throws) ==
  IF L.sessions[s].promise = "pending" THEN [L EXCEPT !.sessions[s].waiting = kind]
  ELSE IF L.sessions[s].promise = "rejected" THEN [L EXCEPT !.unhandled = TRUE]
  ELSE Deliver(L, s, kind, throws)

(* Room for one more event of the user or of the remote end *)
LiveBudget == nLive + nEvents < MaxLiveEvents

LiveUnchanged == UNCHANGED <<gestureVars, otherVars, playbackVars, poseTransformRef, lastFrame, cameraVars, errorTimers>>

(* startLiveSession; the guard reads the coaching flag.  most bounds the   *)
(* calls that are followed.                                                *)
startLiveSessionAmong(outcome, most) ==
  /\ ~isLiveCoaching
  /\ Len(sessions) < most
  /\ LiveBudget
  /\ LET s == Len(sessions) + 1
     IN SetLive([LiveState EXCEPT
          !.sessions = Append(@, NewSession(outcome)),
          !.audioContextRef = IF outcome = "throws before context" THEN @ ELSE s,
          !.liveSessionRef = IF outcome = "connecting" THEN s ELSE @,
          !.isLiveCoaching = (outcome = "connecting"),
          !.error = IF outcome = "connecting" THEN @ ELSE StartNotice])
  /\ IF outcome = "throws before context"
     THEN UNCHANGED <<currentTime, nextAudioStartTimeRef>>
     ELSE currentTime' = 0 /\ nextAudioStartTimeRef' = 0
  /\ nLive' = nLive + 1
  /\ UNCHANGED <<gestureVars, otherVars, poseTransformRef, lastFrame, cameraVars,
                 errorTimers, scheduled>>

startLiveSession(outcome) == startLiveSessionAmong(outcome, MaxSessions)

(* The coach button *)
toggleLiveCoachAmong(outcome, most) ==
  IF isLiveCoaching
  THEN /\ LiveBudget
       /\ SetLive(stopLiveSession(LiveState))
       /\ nLive' = nLive + 1
       /\ LiveUnchanged
  ELSE startLiveSessionAmong(outcome, most)

toggleLiveCoach(outcome) == toggleLiveCoachAmong(outcome, MaxSessions)

(* ---------------------------------------------------------------------- *)
(* Playback of the coach's audio                                           *)
(* ---------------------------------------------------------------------- *)

(* Variant that starts every buffer at once *)
PlaybackStartNow(now, next) == now

(* Math.max(audioCtx.currentTime, nextAudioStartTimeRef.current) *)
PlaybackStart(now, next) == IF now > next THEN now ELSE next

(* callbacks.onmessage with an audio chunk of the given duration: without  *)
(* an output AudioContext in the ref the chunk is dropped.                 *)
onmessage(s, duration) ==
  /\ s \in 1..Len(sessions)
  /\ sessions[s].conn = "open"
  /\ Len(scheduled) < MaxChunks
  /\ audioContextRef # 0
  /\ LET startTime == PlaybackStart(currentTime, nextAudioStartTimeRef)
     IN /\ scheduled' = Append(scheduled, [ctx |-> audioContextRef, at |-> currentTime,
                                           start |-> startTime,
                                           end |-> startTime + duration])
        /\ nextAudioStartTimeRef' = startTime + duration
  /\ UNCHANGED <<gestureVars, otherVars, liveVars, poseTransformRef, lastFrame, nLive,
                 cameraVars, errorTimers, currentTime>>

(* The clock of the output AudioContext advances while the context runs *)
AudioClock ==
  /\ audioContextRef # 0
  /\ sessions[audioContextRef].outCtx = "open"
  /\ currentTime < MaxTime
  /\ currentTime' = currentTime + 1
  /\ UNCHANGED <<gestureVars, otherVars, liveVars, poseTransformRef, lastFrame, nLive,
                 cameraVars, errorTimers, nextAudioStartTimeRef, scheduled>>

(* The connection of session s opens: callbacks.onopen runs to its await   *)
(* of getUserMedia.                                                        *)
ConnectionOpens(s) ==
  /\ s \in 1..Len(sessions)
  /\ sessions[s].conn = "connecting"
  /\ sessions' = [sessions EXCEPT ![s].conn = "open", ![s].onopen = "awaitMic"]
  /\ UNCHANGED <<isLiveCoaching, error, liveSessionRef, audioContextRef,
                 audioInputContextRef, micStreamRef, videoIntervalRef, stops,
                 lastSend, unhandled, nLive>>
  /\ LiveUnchanged

(* The calls of stopLiveSession that await the connect promise of session *)
(* s go on, one after the other.                                           *)
RECURSIVE ResumeStops(_, _)
ResumeStops(L, s) ==
  IF L.sessions[s].stopsWaiting = 0 THEN L
  ELSE ResumeStops(StopCloseSession([L EXCEPT !.sessions[s].stopsWaiting = @ - 1], s), s)

(* The send queued on the connect promise of session s runs or is rejected *)
ResumeSend(L, s, throws) ==
  IF L.sessions[s].waiting = "none" THEN L
  ELSE SendRealtimeInput([L EXCEPT !.sessions[s].waiting = "none"],
                         s, L.sessions[s].waiting, throws)

(* The promise of ai.live.connect settles: it resolves once the connection *)
(* has opened, or rejects for an attempt whose connection never opens.     *)
(* The continuations queued on it run in the order they were queued, the   *)
(* stops before the send (stopFirst) or after it.                          *)
ConnectSettles(s, how, throws, stopFirst) ==
  /\ s \in 1..Len(sessions)
  /\ sessions[s].promise = "pending"
  /\ how = "resolved" => sessions[s].onopen # "idle"
  /\ how = "rejected" => sessions[s].onopen = "idle"
  /\ LET L0 == [LiveState EXCEPT !.sessions[s].promise = how,
                                 !.sessions[s].conn =
                                    IF @ = "connecting" THEN "failed" ELSE @]
     IN SetLive(IF stopFirst
                THEN ResumeSend(ResumeStops(L0, s), s, throws)
                ELSE ResumeStops(ResumeSend(L0, s, throws), s))
  /\ UNCHANGED nLive
  /\ LiveUnchanged

(* onopen goes on after getUserMedia: the microphone, its AudioContext and *)
(* processor (granted), then the sampler's setInterval.                    *)
MicrophoneAnswers(s, granted) ==
  /\ s \in 1..Len(sessions)
  /\ sessions[s].onopen = "awaitMic"
  /\ sessions' = [sessions EXCEPT ![s].onopen = "done",
                                  ![s].mic = IF granted THEN "live" ELSE "denied",
                                  ![s].inCtx = IF granted THEN "open" ELSE @,
                                  ![s].interval = "scheduled"]
  /\ micStreamRef' = IF granted THEN s ELSE micStreamRef
  /\ audioInputContextRef' = IF granted THEN s ELSE audioInputContextRef
  /\ videoIntervalRef' = s
  /\ UNCHANGED <<isLiveCoaching, error, liveSessionRef, audioContextRef, stops,
                 lastSend, unhandled, nLive>>
  /\ LiveUnchanged

(* A tick of the sampler of session s: composite with the Transform of the *)
(* ref, send the frame.                                                    *)
SamplerTick(s, throws) ==
  /\ s \in 1..Len(sessions)
  /\ sessions[s].interval = "scheduled"
  /\ lastFrame' = Some([used |-> poseTransformRef, published |-> poseTransform,
                        afterStop |-> sessions[s].stopped,
                        videoMirrored |-> FALSE,
                        screenMirrored |-> (facingMode = "user")])
  /\ SetLive(SendRealtimeInput(LiveState, s, "frame", throws))
  /\ UNCHANGED <<gestureVars, otherVars, playbackVars, poseTransformRef, nLive, cameraVars, errorTimers>>

(* onaudioprocess of session s, while its AudioContext runs *)
AudioProcess(s, throws) ==
  /\ s \in 1..Len(sessions)
  /\ sessions[s].mic = "live"
  /\ sessions[s].inCtx = "open"
  /\ SetLive(SendRealtimeInput(LiveState, s, "audio", throws))
  /\ UNCHANGED nLive
  /\ LiveUnchanged

(* The remote end closes the connection, or the connection fails: the      *)
(* callback onclose or onerror is due.                                     *)
RemoteCloses(s) ==
  /\ s \in 1..Len(sessions)
  /\ sessions[s].conn = "open"
  /\ LiveBudget
  /\ sessions' = [sessions EXCEPT ![s].conn = "closed", ![s].closedBy = "remote",
                                  ![s].onclose = TRUE]
  /\ nLive' = nLive + 1
  /\ UNCHANGED <<isLiveCoaching, error, liveSessionRef, audioContextRef,
                 audioInputContextRef, micStreamRef, videoIntervalRef, stops,
                 lastSend, unhandled>>
  /\ LiveUnchanged

(* callbacks.onclose *)
onclose(s) ==
  /\ s \in 1..Len(sessions)
  /\ sessions[s].onclose
  /\ SetLive(stopLiveSession([LiveState EXCEPT !.sessions[s].onclose = FALSE]))
  /\ UNCHANGED nLive
  /\ LiveUnchanged

(* callbacks.onerror, as the connection fails *)
onerror(s) ==
  /\ s \in 1..Len(sessions)
  /\ sessions[s].conn \in {"connecting", "open"}
  /\ LiveBudget
  /\ SetLive(stopLiveSession([LiveState EXCEPT !.sessions[s].conn = "closed",
                                               !.sessions[s].closedBy = "error",
                                               !.sessions[s].noticed = TRUE,
                                               !.error = ConnectionNotice]))
  /\ nLive' = nLive + 1
  /\ LiveUnchanged

(* The close() of the output AudioContext has resolved in a stopLiveSession *)
StopAfterOutputClosed ==
  /\ stops.output > 0
  /\ SetLive(StopCloseInput([LiveState EXCEPT !.stops.output = @ - 1,
                                              !.audioContextRef = 0]))
  /\ UNCHANGED nLive
  /\ LiveUnchanged

(* The close() of the input AudioContext has resolved in a stopLiveSession *)
StopAfterInputClosed ==
  /\ stops.input > 0
  /\ SetLive(StopFinish([LiveState EXCEPT !.stops.input = @ - 1,
                                          !.audioInputContextRef = 0]))
  /\ UNCHANGED nLive
  /\ LiveUnchanged

(* The effect that copies poseTransform into poseTransformRef, after the   *)
(* render that followed a change of poseTransform                          *)
SyncPoseTransformRef ==
  /\ poseTransformRef # poseTransform
  /\ poseTransformRef' = poseTransform
  /\ UNCHANGED <<gestureVars, otherVars, playbackVars, liveVars, lastFrame, nLive, cameraVars, errorTimers>>

(* ---------------------------------------------------------------------- *)
(* App: camera, zoom and shutter                                           *)
(* ---------------------------------------------------------------------- *)

CameraNotice == "cannot access camera"

(* Zoom levels are counted in hundredths: the scrub of the slider moves    *)
(* the zoom by 0.01 for a pixel.                                           *)
ZoomLevels == {100, 200}

(* What the camera actions leave alone *)
CameraUnchanged ==
  UNCHANGED <<gestureVars, otherVars, playbackVars, poseTransformRef, lastFrame, errorTimers>>

(* handleZoomChange: setZoomLevel, and with a stream the constraint is     *)
(* asked of its track.                                                     *)
ZoomTo(newZoom) ==
  /\ zoomLevel' = newZoom
  /\ zoomRequests' = IF stream # 0 THEN zoomRequests + 1 ELSE zoomRequests

(* Variant of handleZoomChange that also scales the pose overlay *)
handleZoomChangeScalesPose(newZoom) ==
  /\ LiveBudget
  /\ zoomCapabilities # NULL
  /\ newZoom # zoomLevel
  /\ ZoomTo(newZoom)
  /\ poseTransform' = [poseTransform EXCEPT !.scale = Root(newZoom * newZoom, 100 * 100)]
  /\ nLive' = nLive + 1
  /\ UNCHANGED <<activePose, isGeneratingPose, generations, fingers, overlayVars,
                 lastEvent, nEvents,
                 otherVars, playbackVars, liveVars, poseTransformRef, lastFrame, errorTimers,
                 facingMode, zoomCapabilities, gallery, stream, cameraStreams, cameraRequests,
                 effectStream, flashEnabled, captures>>

(* The zoom slider, which is shown for a camera that can zoom, is moved to *)
(* newZoom.                                                                *)
handleZoomChange(newZoom) ==
  /\ LiveBudget
  /\ zoomCapabilities # NULL
  /\ newZoom # zoomLevel
  /\ ZoomTo(newZoom)
  /\ nLive' = nLive + 1
  /\ UNCHANGED <<liveVars, facingMode, zoomCapabilities, gallery, stream, cameraStreams, cameraRequests,
                 effectStream, flashEnabled, captures>>
  /\ CameraUnchanged

(* Variant of the zoom's catch block that reports the rejection *)
ZoomConstraintAnswersWithNotice(accepted) ==
  /\ zoomRequests > 0
  /\ zoomRequests' = zoomRequests - 1
  /\ error' = IF accepted THEN error ELSE CameraNotice
  /\ UNCHANGED <<coachVars, nLive, facingMode, zoomLevel, zoomCapabilities, gallery, stream, cameraStreams,
                 cameraRequests, effectStream, flashEnabled, captures>>
  /\ CameraUnchanged

(* applyConstraints of a handleZoomChange answers: a rejection is caught   *)
(* and logged.                                                             *)
ZoomConstraintAnswers(accepted) ==
  /\ zoomRequests > 0
  /\ zoomRequests' = zoomRequests - 1
  /\ UNCHANGED <<liveVars, nLive, facingMode, zoomLevel, zoomCapabilities, gallery, stream, cameraStreams,
                 cameraRequests, effectStream, flashEnabled, captures>>
  /\ CameraUnchanged

(* The flash button *)
toggleFlash ==
  /\ LiveBudget
  /\ flashEnabled' = ~flashEnabled
  /\ nLive' = nLive + 1
  /\ UNCHANGED <<liveVars, facingMode, zoomLevel, zoomCapabilities, gallery, stream, cameraStreams,
                 cameraRequests, effectStream, captures, zoomRequests>>
  /\ CameraUnchanged

(* The frame capturePhoto draws: the video, which plays the stream set     *)
(* last, mirrored when the facingMode the handler holds is 'user'.  torch  *)
(* tells how the handler came to the frame: "off" without a torch request, *)
(* "lit" after an accepted request and its 200 ms, "rejected" after the    *)
(* catch of a rejected one.                                                *)
Photo(mode, torch) ==
  [mirrored |-> mode = "user",
   camera   |-> cameraStreams[stream].facing,
   live     |-> cameraStreams[stream].live,
   overlay  |-> FALSE,
   torch    |-> torch]

(* The shutter (its button is disabled while a pose is generated).  With   *)
(* the flash on and the rear camera the torch is asked                     *)
(* of the track and the handler waits; otherwise the frame goes to the     *)
(* gallery at once.                                                        *)
capturePhoto ==
  /\ stream # 0
  /\ ~isGeneratingPose
  /\ LiveBudget
  /\ IF flashEnabled /\ facingMode = "environment"
     THEN /\ captures' = Append(captures, [facingMode |-> facingMode, phase |-> "torch"])
          /\ UNCHANGED gallery
     ELSE /\ gallery' = Append(gallery, Photo(facingMode, "off"))
          /\ UNCHANGED captures
  /\ nLive' = nLive + 1
  /\ UNCHANGED <<liveVars, facingMode, zoomLevel, zoomCapabilities, stream, cameraStreams, cameraRequests,
                 effectStream, flashEnabled, zoomRequests>>
  /\ CameraUnchanged

(* applyConstraints({torch: true}) of capture c answers: accepted, the     *)
(* handler waits 200 ms; rejected, the catch logs and the frame is taken.  *)
TorchAnswers(c, accepted) ==
  /\ c \in 1..Len(captures)
  /\ captures[c].phase = "torch"
  /\ IF accepted
     THEN /\ captures' = [captures EXCEPT ![c].phase = "delay"]
          /\ UNCHANGED gallery
     ELSE /\ captures' = Without(captures, c)
          /\ gallery' = Append(gallery, Photo(captures[c].facingMode, "rejected"))
  /\ UNCHANGED <<liveVars, nLive, facingMode, zoomLevel, zoomCapabilities, stream, cameraStreams,
                 cameraRequests, effectStream, flashEnabled, zoomRequests>>
  /\ CameraUnchanged

(* The 200 ms of capture c are over: the frame is taken, and the torch is  *)
(* asked off (its answer changes nothing here).                            *)
CaptureAfterTorch(c) ==
  /\ c \in 1..Len(captures)
  /\ captures[c].phase = "delay"
  /\ captures' = Without(captures, c)
  /\ gallery' = Append(gallery, Photo(captures[c].facingMode, "lit"))
  /\ UNCHANGED <<liveVars, nLive, facingMode, zoomLevel, zoomCapabilities, stream, cameraStreams,
                 cameraRequests, effectStream, flashEnabled, zoomRequests>>
  /\ CameraUnchanged

(* The tracks of camera stream i are stopped (i = 0: no stream) *)
StopTracks(streams, i) ==
  IF i = 0 THEN streams ELSE [streams EXCEPT ![i].live = FALSE]

(* The flip button: facingMode changes.  The cleanup of the camera effect  *)
(* stops the stream its closure holds and calls stopLiveSession; the       *)
(* effect then calls the new startCamera, which stops the stream of the    *)
(* render it was made in and asks for a camera.                            *)
toggleCamera ==
  /\ LiveBudget
  /\ facingMode' = IF facingMode = "environment" THEN "user" ELSE "environment"
  /\ SetLive(stopLiveSession(LiveState))
  /\ cameraStreams' = StopTracks(StopTracks(cameraStreams, effectStream), stream)
  /\ effectStream' = stream
  /\ cameraRequests' = Append(cameraRequests, [facing |-> facingMode'])
  /\ nLive' = nLive + 1
  /\ UNCHANGED <<zoomLevel, zoomCapabilities, gallery, stream, flashEnabled, captures, zoomRequests>>
  /\ CameraUnchanged

(* getUserMedia of the startCamera call r answers.  With a stream: it is   *)
(* set as the stream and as the source of the video, the zoom range the    *)
(* track reports (zoom; NULL if it reports none) is kept and with a range  *)
(* the zoom is reset to 1, and the notice is cleared.  Without a stream:   *)
(* the notice is raised.                                                   *)
startCameraReports(r, ok, zoom) ==
  /\ r \in 1..Len(cameraRequests)
  /\ cameraRequests' = Without(cameraRequests, r)
  /\ IF ok
     THEN /\ cameraStreams' = Append(cameraStreams,
                                     [facing |-> cameraRequests[r].facing, live |-> TRUE])
          /\ stream' = Len(cameraStreams) + 1
          /\ zoomCapabilities' = zoom
          /\ zoomLevel' = IF zoom # NULL THEN 100 ELSE zoomLevel
          /\ error' = NoError
     ELSE /\ error' = CameraNotice
          /\ UNCHANGED <<cameraStreams, stream, zoomLevel, zoomCapabilities>>
  /\ UNCHANGED <<coachVars, nLive, facingMode, gallery, effectStream, flashEnabled,
                 captures, zoomRequests>>
  /\ CameraUnchanged

(* startCamera answered by a camera without zoom or with a zoom from 1 to 2 *)
startCameraDone(r, ok, canZoom) ==
  startCameraReports(r, ok, IF canZoom THEN [min |-> 100, max |-> 200] ELSE NULL)

(* Touch events on the overlay while the coaching is modelled *)
LiveTouchStart(p) == LiveBudget /\ TouchStart(p, TRUE)

LiveTouchMove(i, p) == LiveBudget /\ TouchMove(i, p)

LiveTouchEnd(i) == LiveBudget /\ TouchEnd(i)

(* Touch points of the gestures made while the coaching is modelled *)
LivePoints == { [x |-> 0, y |-> 0], [x |-> 100, y |-> 0] }

(* The coaching session, the camera, the gestures and the resets of the    *)
(* Transform.  The failure of a pose generation and the life of its notice *)
(* are steps of Spec.                                                      *)
LiveNext ==
  \/ \E outcome \in StartOutcomes : toggleLiveCoach(outcome)
  \/ \E s \in 1..MaxSessions : ConnectionOpens(s)
  \/ \E s \in 1..MaxSessions, how \in {"resolved", "rejected"},
        throws \in BOOLEAN, stopFirst \in BOOLEAN :
       ConnectSettles(s, how, throws, stopFirst)
  \/ \E s \in 1..MaxSessions, granted \in BOOLEAN : MicrophoneAnswers(s, granted)
  \/ \E s \in 1..MaxSessions, throws \in BOOLEAN : SamplerTick(s, throws)
  \/ \E s \in 1..MaxSessions, throws \in BOOLEAN : AudioProcess(s, throws)
  \/ \E s \in 1..MaxSessions : RemoteCloses(s)
  \/ \E s \in 1..MaxSessions : onclose(s)
  \/ \E s \in 1..MaxSessions : onerror(s)
  \/ StopAfterOutputClosed
  \/ StopAfterInputClosed
  \/ SyncPoseTransformRef
  \/ \E p \in LivePoints : LiveTouchStart(p)
  \/ \E i \in 1..MaxFingers, p \in LivePoints : LiveTouchMove(i, p)
  \/ \E i \in 1..MaxFingers : LiveTouchEnd(i)
  \/ \E newZoom \in ZoomLevels : handleZoomChange(newZoom)
  \/ \E accepted \in BOOLEAN : ZoomConstraintAnswers(accepted)
  \/ capturePhoto
  \/ toggleCamera
  \/ \E r \in 1..MaxLiveEvents + 1, ok \in BOOLEAN, canZoom \in BOOLEAN :
       startCameraDone(r, ok, canZoom)
  \/ handleGeneratePose
  \/ GeneratePoseDone
  \/ handleClearPose

LiveSpec == Init /\ [][LiveNext]_vars

(* The coach started, stopped or failed, and started again *)
RestartNext ==
  \/ \E outcome \in StartOutcomes : toggleLiveCoachAmong(outcome, MaxRestarts)
  \/ \E s \in 1..MaxRestarts : ConnectionOpens(s)
  \/ \E s \in 1..MaxRestarts, how \in {"resolved", "rejected"},
        throws \in BOOLEAN, stopFirst \in BOOLEAN :
       ConnectSettles(s, how, throws, stopFirst)
  \/ \E s \in 1..MaxRestarts, granted \in BOOLEAN : MicrophoneAnswers(s, granted)
  \/ \E s \in 1..MaxRestarts : RemoteCloses(s)
  \/ \E s \in 1..MaxRestarts : onclose(s)
  \/ \E s \in 1..MaxRestarts : onerror(s)
  \/ StopAfterOutputClosed
  \/ StopAfterInputClosed

RestartSpec == Init /\ [][RestartNext]_vars

(* The same steps where every promise a stopLiveSession awaits settles:    *)
(* the browser resolves the close() of an AudioContext, and the promise of *)
(* ai.live.connect is taken to settle.                                     *)
StopSpec ==
  /\ Init
  /\ [][RestartNext]_vars
  /\ WF_vars(\E s \in 1..MaxRestarts, how \in {"resolved", "rejected"},
                 throws \in BOOLEAN, stopFirst \in BOOLEAN :
                ConnectSettles(s, how, throws, stopFirst))
  /\ WF_vars(StopAfterOutputClosed)
  /\ WF_vars(StopAfterInputClosed)

(* The coach is started and the camera is flipped: the cleanup of the      *)
(* camera effect is the only caller of stopLiveSession, and the remote end *)
(* neither closes nor fails.                                               *)
FlipNext ==
  \/ \E outcome \in StartOutcomes : startLiveSession(outcome)
  \/ \E s \in 1..MaxSessions : ConnectionOpens(s)
  \/ \E s \in 1..MaxSessions, how \in {"resolved", "rejected"},
        throws \in BOOLEAN, stopFirst \in BOOLEAN :
       ConnectSettles(s, how, throws, stopFirst)
  \/ \E s \in 1..MaxSessions, granted \in BOOLEAN : MicrophoneAnswers(s, granted)
  \/ \E s \in 1..MaxSessions, throws \in BOOLEAN : SamplerTick(s, throws)
  \/ \E s \in 1..MaxSessions : onclose(s)
  \/ StopAfterOutputClosed
  \/ StopAfterInputClosed
  \/ toggleCamera
  \/ \E r \in 1..MaxLiveEvents + 1, ok \in BOOLEAN, canZoom \in BOOLEAN :
       startCameraDone(r, ok, canZoom)

FlipSpec == Init /\ [][FlipNext]_vars

(* The camera, with the flash, on its own *)
CameraNext ==
  \/ \E newZoom \in ZoomLevels : handleZoomChange(newZoom)
  \/ \E accepted \in BOOLEAN : ZoomConstraintAnswers(accepted)
  \/ toggleFlash
  \/ capturePhoto
  \/ \E c \in 1..MaxLiveEvents, accepted \in BOOLEAN : TorchAnswers(c, accepted)
  \/ \E c \in 1..MaxLiveEvents : CaptureAfterTorch(c)
  \/ toggleCamera
  \/ \E r \in 1..MaxLiveEvents + 1, ok \in BOOLEAN, canZoom \in BOOLEAN :
       startCameraDone(r, ok, canZoom)

CameraSpec == Init /\ [][CameraNext]_vars

(* The notice, raised by the camera and by a failed generation, and the    *)
(* timer and the button that clear it                                      *)
NoticeNext ==
  \/ CameraNext
  \/ handleGeneratePose
  \/ GeneratePoseFailed
  \/ ErrorTimerFires
  \/ dismissError

NoticeSpec == Init /\ [][NoticeNext]_vars

(* The coaching session with the audio it plays *)
PlaybackNext ==
  \/ \E outcome \in StartOutcomes : toggleLiveCoach(outcome)
  \/ \E s \in 1..MaxSessions : ConnectionOpens(s)
  \/ \E s \in 1..MaxSessions, how \in {"resolved", "rejected"},
        throws \in BOOLEAN, stopFirst \in BOOLEAN :
       ConnectSettles(s, how, throws, stopFirst)
  \/ \E s \in 1..MaxSessions, granted \in BOOLEAN : MicrophoneAnswers(s, granted)
  \/ \E s \in 1..MaxSessions, duration \in 1..MaxDuration : onmessage(s, duration)
  \/ AudioClock
  \/ StopAfterOutputClosed
  \/ StopAfterInputClosed

PlaybackSpec == Init /\ [][PlaybackNext]_vars

(* ---------------------------------------------------------------------- *)
(* processImageForTransparency, pixel by pixel                             *)
(* ---------------------------------------------------------------------- *)

(* Channel values of the pixels measured *)
ChannelValues == {0, 10, 19, 20, 21, 22, 200, 255}

(* Variant of the store that drops the fraction *)
ToUint8Truncate(n, d) ==
  LET q == n \div d IN IF q < 0 THEN 0 ELSE IF q > 255 THEN 255 ELSE q

(* The store of the number n/d (d > 0) into a Uint8ClampedArray: rounded   *)
(* to the nearest integer, a tie to the even one, and clamped to 0..255.   *)
ToUint8Clamp(n, d) ==
  LET q == n \div d
      r == n % d
      nearest == IF 2 * r < d THEN q
                 ELSE IF 2 * r > d THEN q + 1
                 ELSE IF q % 2 = 0 THEN q ELSE q + 1
  IN IF nearest < 0 THEN 0 ELSE IF nearest > 255 THEN 255 ELSE nearest

(* The body of the pixel loop: brightness = (r + g + b) / 3, the colour    *)
(* set to white, alpha = brightness < 20 ? 0 : brightness.                 *)
processPixel(r, g, b) ==
  LET sum == r + g + b
  IN [r |-> ToUint8Clamp(255, 1),
      g |-> ToUint8Clamp(255, 1),
      b |-> ToUint8Clamp(255, 1),
      a |-> IF sum < 20 * 3 THEN ToUint8Clamp(0, 1) ELSE ToUint8Clamp(sum, 3)]

PixelInit ==
  /\ GestureInit
  /\ LiveInit
  /\ geometry = NULL
  /\ composite = NULL
  /\ \E r \in ChannelValues, g \in ChannelValues, b \in ChannelValues :
       pixel = Some([r |-> r, g |-> g, b |-> b, processed |-> FALSE, out |-> NULL])

ProcessPixel ==
  /\ pixel # NULL
  /\ ~pixel[1].processed
  /\ pixel' = Some([pixel[1] EXCEPT
                      !.processed = TRUE,
                      !.out = Some(processPixel(pixel[1].r, pixel[1].g, pixel[1].b))])
  /\ UNCHANGED <<gestureVars, liveVars, poseTransformRef, lastFrame, nLive, cameraVars,
                 errorTimers, playbackVars, geometry, composite, asideVars>>

PixelNext == ProcessPixel

PixelSpec == PixelInit /\ [][PixelNext]_vars

(* ---------------------------------------------------------------------- *)
(* ZoomSlider                                                              *)
(* ---------------------------------------------------------------------- *)

(* What a tap sets the zoom to when no preset is in the range (undefined)  *)
(* and what a scrub computes from it (NaN): a value that is no zoom level  *)
NotANumber == -1

(* The zoom ranges of the cameras: least zoom 1, a wide lens, and a camera *)
(* whose driver counts the zoom from 100 to 500                            *)
ZoomCameras ==
  {[min |-> 100, max |-> 200], [min |-> 50, max |-> 500], [min |-> 10000, max |-> 50000]}

(* The moves of the finger on the slider, in pixels from where it landed *)
ScrubDeltas == {-150, -3, 3, 70, 450}

(* The props of the slider: zoomCapabilities?.min || 1 and ?.max || 1 *)
minZoom ==
  IF zoomCapabilities = NULL \/ zoomCapabilities.min = 0 THEN 100 ELSE zoomCapabilities.min

maxZoom ==
  IF zoomCapabilities = NULL \/ zoomCapabilities.max = 0 THEN 100 ELSE zoomCapabilities.max

cyclePresets == {z \in {50, 100, 200, 500} : z >= minZoom /\ z <= maxZoom}

(* cyclePresets.find(p => p > zoomLevel) || cyclePresets[0] *)
nextPreset ==
  LET greater == {p \in cyclePresets : zoomLevel # NotANumber /\ p > zoomLevel}
  IN IF greater # {} THEN CHOOSE p \in greater : \A q \in greater : p <= q
     ELSE IF cyclePresets # {} THEN CHOOSE p \in cyclePresets : \A q \in cyclePresets : p <= q
     ELSE NotANumber

(* Math.max(minZoom, Math.min(maxZoom, startZoom + deltaX * 0.01)) *)
ScrubZoom(deltaX) ==
  LET newZoom == zoomSlider.startZoom + deltaX
  IN IF zoomSlider.startZoom = NotANumber THEN NotANumber
     ELSE IF newZoom > maxZoom THEN (IF maxZoom < minZoom THEN minZoom ELSE maxZoom)
     ELSE IF newZoom < minZoom THEN minZoom
     ELSE newZoom

SliderUnchanged ==
  UNCHANGED <<gestureVars, pureVars, poseImages, isGalleryOpen, selectedImageIndex, liveVars,
              poseTransformRef, lastFrame, errorTimers, playbackVars, facingMode,
              zoomCapabilities, gallery, stream, cameraStreams, cameraRequests,
              effectStream, flashEnabled, captures>>

(* A finger lands on the slider, which is shown for a camera that can zoom *)
zoomTouchStart ==
  /\ zoomCapabilities # NULL
  /\ ~zoomSlider.touching
  /\ zoomSlider' = [zoomSlider EXCEPT !.startZoom = zoomLevel, !.touching = TRUE]
  /\ UNCHANGED <<zoomLevel, zoomRequests, nLive>>
  /\ SliderUnchanged

(* The finger is deltaX from where it landed.  Past 5 pixels a scrub       *)
(* starts and the timer set last is cleared; in a scrub the zoom follows   *)
(* the finger.                                                             *)
zoomTouchMove(deltaX) ==
  /\ zoomCapabilities # NULL
  /\ zoomSlider.touching
  /\ IF zoomSlider.isScrubbing
     THEN /\ LiveBudget
          /\ ZoomTo(ScrubZoom(deltaX))
          /\ nLive' = nLive + 1
          /\ UNCHANGED zoomSlider
     ELSE /\ deltaX > 5 \/ deltaX < -5
          /\ zoomSlider' = [zoomSlider EXCEPT
                              !.isScrubbing = TRUE,
                              !.timers = IF @ > 0 THEN @ - 1 ELSE @]
          /\ UNCHANGED <<zoomLevel, zoomRequests, nLive>>
  /\ SliderUnchanged

(* The finger leaves the slider: a tap goes to the next preset, a scrub    *)
(* ends 300 ms later.                                                      *)
zoomTouchEnd ==
  /\ zoomCapabilities # NULL
  /\ zoomSlider.touching
  /\ IF ~zoomSlider.isScrubbing
     THEN /\ LiveBudget
          /\ ZoomTo(nextPreset)
          /\ nLive' = nLive + 1
          /\ zoomSlider' = [zoomSlider EXCEPT !.touching = FALSE]
     ELSE /\ zoomSlider.timers < MaxTimers
          /\ zoomSlider' = [zoomSlider EXCEPT !.touching = FALSE, !.timers = @ + 1]
          /\ UNCHANGED <<zoomLevel, zoomRequests, nLive>>
  /\ SliderUnchanged

(* The timer of a scrub's end fires *)
scrubTimeoutFires ==
  /\ zoomSlider.timers > 0
  /\ zoomSlider' = [zoomSlider EXCEPT !.timers = @ - 1, !.isScrubbing = FALSE]
  /\ UNCHANGED <<zoomLevel, zoomRequests, nLive>>
  /\ SliderUnchanged

ZoomNext ==
  \/ \E r \in 1..MaxLiveEvents + 1, ok \in BOOLEAN, zoom \in ZoomCameras \cup {NULL} :
       startCameraReports(r, ok, zoom)
  \/ toggleCamera
  \/ zoomTouchStart
  \/ \E deltaX \in ScrubDeltas : zoomTouchMove(deltaX)
  \/ zoomTouchEnd
  \/ scrubTimeoutFires
  \/ \E accepted \in BOOLEAN : ZoomConstraintAnswers(accepted)

ZoomSpec == Init /\ [][ZoomNext]_vars

(* ---------------------------------------------------------------------- *)
(* App: the gallery                                                        *)
(* ---------------------------------------------------------------------- *)

GalleryUnchanged ==
  UNCHANGED <<gestureVars, pureVars, poseImages, zoomSlider, liveVars, poseTransformRef,
              lastFrame, nLive, errorTimers, playbackVars, facingMode, zoomLevel,
              zoomCapabilities, stream, cameraStreams,
              cameraRequests, effectStream, flashEnabled, captures, zoomRequests>>

(* The gallery button *)
openGallery ==
  /\ ~isGalleryOpen
  /\ isGalleryOpen' = TRUE
  /\ UNCHANGED <<selectedImageIndex, gallery>>
  /\ GalleryUnchanged

(* The close button of the grid *)
closeGallery ==
  /\ isGalleryOpen
  /\ selectedImageIndex = NULL
  /\ isGalleryOpen' = FALSE
  /\ UNCHANGED <<selectedImageIndex, gallery>>
  /\ GalleryUnchanged

(* A tap on photo idx of the grid *)
selectImage(idx) ==
  /\ isGalleryOpen
  /\ selectedImageIndex = NULL
  /\ idx \in 0..(Len(gallery) - 1)
  /\ selectedImageIndex' = Some(idx)
  /\ UNCHANGED <<isGalleryOpen, gallery>>
  /\ GalleryUnchanged

(* The back button of the review *)
backToGrid ==
  /\ isGalleryOpen
  /\ selectedImageIndex # NULL
  /\ selectedImageIndex' = NULL
  /\ UNCHANGED <<isGalleryOpen, gallery>>
  /\ GalleryUnchanged

(* Variant of deletePhoto that leaves the selection as it is unless the    *)
(* gallery becomes empty                                                   *)
deletePhotoKeepsIndex ==
  /\ isGalleryOpen
  /\ selectedImageIndex # NULL
  /\ LET index == selectedImageIndex[1]
         newGallery == Without(gallery, index + 1)
     IN /\ gallery' = newGallery
        /\ IF Len(newGallery) = 0
           THEN selectedImageIndex' = NULL /\ isGalleryOpen' = FALSE
           ELSE UNCHANGED <<selectedImageIndex, isGalleryOpen>>
  /\ GalleryUnchanged

(* The delete button of the review: deletePhoto(selectedImageIndex) *)
deletePhoto ==
  /\ isGalleryOpen
  /\ selectedImageIndex # NULL
  /\ LET index == selectedImageIndex[1]
         newGallery == Without(gallery, index + 1)
         last == Len(newGallery) - 1
     IN /\ gallery' = newGallery
        /\ IF Len(newGallery) = 0
           THEN selectedImageIndex' = NULL /\ isGalleryOpen' = FALSE
           ELSE /\ selectedImageIndex' =
                     Some(IF selectedImageIndex[1] < last THEN selectedImageIndex[1] ELSE last)
                /\ UNCHANGED isGalleryOpen
  /\ GalleryUnchanged

GalleryNext ==
  \/ \E r \in 1..MaxLiveEvents + 1, ok \in BOOLEAN, canZoom \in BOOLEAN :
       startCameraDone(r, ok, canZoom)
  \/ toggleFlash
  \/ capturePhoto
  \/ \E c \in 1..MaxLiveEvents, accepted \in BOOLEAN : TorchAnswers(c, accepted)
  \/ \E c \in 1..MaxLiveEvents : CaptureAfterTorch(c)
  \/ openGallery
  \/ closeGallery
  \/ \E idx \in 0..(MaxLiveEvents - 1) : selectImage(idx)
  \/ backToGrid
  \/ deletePhoto

GallerySpec == Init /\ [][GalleryNext]_vars

(* ---------------------------------------------------------------------- *)
(* The image of the active pose                                            *)
(* ---------------------------------------------------------------------- *)

(* The effect of [activePose], run after the render that committed the     *)
(* pose: a pose starts the load of its image (pose is its number), no pose *)
(* (0) empties poseImageRef.                                               *)
PoseImageEffect(images, pose) ==
  IF pose # 0
  THEN [images EXCEPT !.active = pose, !.loading = @ \cup {pose}]
  ELSE [images EXCEPT !.active = 0, !.poseImageRef = 0]

ImageUnchanged ==
  UNCHANGED <<pureVars, liveVars, poseTransformRef, lastFrame, nLive, cameraVars, errorTimers,
              playbackVars, isGalleryOpen, selectedImageIndex, zoomSlider>>

(* The collaborator returned an image: the new pose becomes active and the *)
(* effect starts the load of its image.                                    *)
GeneratePoseDoneLoads ==
  /\ generations > 0
  /\ poseImages.made < MaxPoses
  /\ activePose' = GeneratedPose
  /\ poseTransform' = INITIAL_TRANSFORM
  /\ isGeneratingPose' = FALSE
  /\ generations' = generations - 1
  /\ lastEvent' = "reset"
  /\ poseImages' = PoseImageEffect([poseImages EXCEPT !.made = @ + 1], poseImages.made + 1)
  /\ UNCHANGED <<fingers, overlayVars, nEvents>>
  /\ ImageUnchanged

(* The clear button, and the effect that follows the render without pose *)
handleClearPoseEmpties ==
  /\ activePose # NoPose
  /\ \A i \in 1..Len(fingers) : ~fingers[i].overlay
  /\ activePose' = NoPose
  /\ poseTransform' = INITIAL_TRANSFORM
  /\ lastEvent' = "reset"
  /\ poseImages' = PoseImageEffect(poseImages, 0)
  /\ UNCHANGED <<isGeneratingPose, generations, fingers, overlayVars, nEvents>>
  /\ ImageUnchanged

(* img.onload of the image of pose: poseImageRef.current = img *)
imgOnload(pose) ==
  /\ pose \in poseImages.loading
  /\ poseImages' = [poseImages EXCEPT !.loading = @ \ {pose}, !.poseImageRef = pose]
  /\ UNCHANGED gestureVars
  /\ ImageUnchanged

(* img.onerror: a warning is logged *)
imgOnerror(pose) ==
  /\ pose \in poseImages.loading
  /\ poseImages' = [poseImages EXCEPT !.loading = @ \ {pose}]
  /\ UNCHANGED gestureVars
  /\ ImageUnchanged

ImageNext ==
  \/ \E p \in Points, onOverlay \in BOOLEAN : TouchStart(p, onOverlay)
  \/ \E i \in 1..MaxFingers : TouchEnd(i)
  \/ handleGeneratePose
  \/ GeneratePoseDoneLoads
  \/ handleClearPoseEmpties
  \/ \E pose \in 1..MaxPoses : imgOnload(pose)
  \/ \E pose \in 1..MaxPoses : imgOnerror(pose)

ImageSpec == Init /\ [][ImageNext]_vars

(* ---------------------------------------------------------------------- *)
(* The compositing of a sampler tick                                       *)
(* ---------------------------------------------------------------------- *)

(* A number of the compositing: the reduced fraction n/d, d > 0.  The      *)
(* rounding of the floating-point operations is left out.                  *)
Ratio(n, d) ==
  LET g == GCD(Abs(n), d) IN [n |-> n \div g, d |-> d \div g]

RatioMul(a, b) == Ratio(a.n * b.n, a.d * b.d)

(* a / b, b > 0 *)
RatioDiv(a, b) == Ratio(a.n * b.d, a.d * b.n)

RatioNeg(a) == [n |-> 0 - a.n, d |-> a.d]

(* Variant of the cover scale that takes the smaller ratio (contain) *)
ScaleContain(scaleX, scaleY) ==
  IF scaleX.n * scaleY.d <= scaleY.n * scaleX.d THEN scaleX ELSE scaleY

(* Math.max(scaleX, scaleY) *)
ScaleCover(scaleX, scaleY) ==
  IF scaleX.n * scaleY.d >= scaleY.n * scaleX.d THEN scaleX ELSE scaleY

(* The screens, the videos and the Transforms composited *)
ScreenSizes == { [w |-> 390, h |-> 844], [w |-> 844, h |-> 390], [w |-> 640, h |-> 480] }

VideoSizes == { [w |-> 1280, h |-> 720], [w |-> 720, h |-> 1280], [w |-> 641, h |-> 481] }

CompositeTransforms ==
  [x : {0, -30, 52}, y : {0, 21}, scale : {Root(1, 1), Root(1, 4), Root(25, 1)},
   rotation : {0, 90, -450}]

(* The calls the tick makes on the 2D context to draw the pose image: the  *)
(* canvas has half the size of the video, stored in canvas.width and       *)
(* canvas.height as whole numbers; the rotation is kept in degrees.        *)
Compositing(currentPoseTransform, hasImage, screenW, screenH, videoW, videoH) ==
  LET canvasWidth == videoW \div 2
      canvasHeight == videoH \div 2
      scaleX == Ratio(screenW, videoW)
      scaleY == Ratio(screenH, videoH)
      scaleCover == ScaleCover(scaleX, scaleY)
      canvasScaleFactor == Ratio(canvasWidth, videoW)
      conversionRatio == RatioMul(RatioDiv(Ratio(1, 1), scaleCover), canvasScaleFactor)
      drawW == RatioMul(Ratio(screenW, 1), conversionRatio)
      drawH == RatioMul(Ratio(screenH, 1), conversionRatio)
  IN IF ~hasImage THEN <<>>
     ELSE << [op |-> "translate", x |-> Ratio(canvasWidth, 2), y |-> Ratio(canvasHeight, 2)],
             [op |-> "translate",
              x |-> RatioMul(Ratio(currentPoseTransform.x, 1), conversionRatio),
              y |-> RatioMul(Ratio(currentPoseTransform.y, 1), conversionRatio)],
             [op |-> "rotate", degrees |-> currentPoseTransform.rotation],
             [op |-> "scale", x |-> currentPoseTransform.scale,
              y |-> currentPoseTransform.scale],
             [op |-> "drawImage",
              x |-> RatioNeg(RatioDiv(drawW, Ratio(2, 1))),
              y |-> RatioNeg(RatioDiv(drawH, Ratio(2, 1))),
              w |-> drawW, h |-> drawH] >>

CompositeInit ==
  /\ GestureInit
  /\ LiveInit
  /\ geometry = NULL
  /\ pixel = NULL
  /\ \E t \in CompositeTransforms, hasImage \in BOOLEAN, screen \in ScreenSizes,
        video \in VideoSizes :
       composite = Some([transform |-> t, hasImage |-> hasImage, screen |-> screen,
                         video |-> video, drawn |-> FALSE, calls |-> <<>>])

CompositeTick ==
  /\ composite # NULL
  /\ ~composite[1].drawn
  /\ composite' = Some([composite[1] EXCEPT
                          !.drawn = TRUE,
                          !.calls = Compositing(composite[1].transform, composite[1].hasImage,
                                                composite[1].screen.w, composite[1].screen.h,
                                                composite[1].video.w, composite[1].video.h)])
  /\ UNCHANGED <<gestureVars, liveVars, poseTransformRef, lastFrame, nLive, cameraVars,
                 errorTimers, playbackVars, geometry, pixel, asideVars>>

CompositeNext == CompositeTick

CompositeSpec == CompositeInit /\ [][CompositeNext]_vars

(* ---------------------------------------------------------------------- *)
(* Properties                                                              *)
(* ---------------------------------------------------------------------- *)

(* clamp(s, 0.2, 5.0) as handleTouchMove writes it *)
Clamp(s) == MathMax(MinScale, MathMin(s, MaxScale))

(* s is a number of [0.2, 5.0] *)
InRange(s) == s.k = "fin" /\ NumLeq(MinScale, s) /\ NumLeq(s, MaxScale)

(* The kinds of step, told by what happens to the touches on the screen *)
IsTouchMoveStep == nEvents' = nEvents + 1 /\ Len(fingers') = Len(fingers)

IsOverlayTouchStartStep ==
  Len(fingers') = Len(fingers) + 1 /\ fingers'[Len(fingers')].overlay

IsOverlayTouchEndStep ==
  /\ Len(fingers') = Len(fingers) - 1
  /\ \E i \in 1..Len(fingers) : fingers[i].overlay /\ fingers' = Without(fingers, i)

(* A touch-move has been the last thing to act on the overlay and the      *)
(* Transform, with n touches and a reference a touch-start took from n     *)
(* touches.                                                                *)
MovedWith(n) ==
  /\ lastEvent \in MoveEvents
  /\ Len(activeTouches) = n
  /\ initialGestureData # NULL
  /\ refTouches = n

(* C1: in every reachable state the scale of the shared Transform is a     *)
(* number of [0.2, 5.0], whatever touch events and resets came before,     *)
(* two fingers starting on the same point included.                        *)
C1_ScaleWithinBounds == InRange(poseTransform.scale)

(* C2: after a two-touch move evaluated against a reference distance of 0  *)
(* the scale is the baseline scale clamped to [0.2, 5.0] (the multiplier   *)
(* is taken as 1), and it is a number.                                     *)
C2_ZeroReferenceDistanceKeepsScale ==
  ( /\ lastEvent \in MoveEvents
    /\ Len(activeTouches) = 2
    /\ initialGestureData # NULL
    /\ IsZero(initialGestureData[1].distance) )
  => /\ InRange(poseTransform.scale)
     /\ poseTransform.scale = Clamp(initialTransform.scale)

(* C3: a touch-move handled while there is no gesture reference leaves the *)
(* Transform unchanged; a touch-end or touch-cancel on the overlay clears  *)
(* the touch set and the reference; and only a touch-start on the overlay  *)
(* brings a reference back, so every move until then is a no-op.           *)
C3_MoveWithoutReferenceIsNoOp ==
  [][ /\ (IsTouchMoveStep /\ initialGestureData = NULL)
           => poseTransform' = poseTransform
      /\ IsOverlayTouchEndStep
           => (activeTouches' = <<>> /\ initialGestureData' = NULL)
      /\ (initialGestureData = NULL /\ initialGestureData' # NULL)
           => IsOverlayTouchStartStep ]_vars

(* C3 happens: a touch-move has been handled with a finger down and no     *)
(* reference (another finger had lifted before it).                        *)
C3_Witness ==
  /\ lastEvent \in MoveEvents
  /\ initialGestureData = NULL
  /\ Len(activeTouches) >= 1

(* C4: a touch-move that delivers a number of touches other than the       *)
(* number the reference was taken from does not change the Transform.      *)
C4_TouchCountMismatchIsNoOp ==
  [][ ( /\ IsTouchMoveStep
        /\ initialGestureData # NULL
        /\ Len(activeTouches') # refTouches )
      => poseTransform' = poseTransform ]_vars

(* C5: whenever a touch that lands on the overlay or lifts from it leaves  *)
(* one or two fingers down, one of them on the overlay, the baseline is    *)
(* the Transform of that instant and a gesture reference exists.           *)
C5_RebaseAtEveryTransition ==
  [][ ( /\ IsOverlayTouchStartStep \/ IsOverlayTouchEndStep
        /\ Len(fingers') \in {1, 2}
        /\ \E i \in 1..Len(fingers') : fingers'[i].overlay )
      => /\ initialGestureData' # NULL
         /\ initialTransform' = poseTransform
         /\ poseTransform' = poseTransform ]_vars

(* C6: after a second finger has landed on the overlay, the first two-     *)
(* touch move in which no finger has moved publishes the Transform the     *)
(* gesture had before the finger landed (x, y, scale and rotation).        *)
C6_ContinuityAtSecondFinger ==
  [][ ( /\ lastEvent = "touchstart"
        /\ Len(activeTouches) = 2
        /\ refTouches = 2
        /\ IsTouchMoveStep
        /\ activeTouches' = activeTouches )
      => poseTransform' = poseTransform ]_vars

(* The touches (0,0),(100,0) moved to (0,0),(200,0) from identity *)
C7_Scenario ==
  /\ MovedWith(2)
  /\ initialTransform = INITIAL_TRANSFORM
  /\ initialGestureData =
       Some([distance |-> Root(100 * 100, 1), angle |-> 0, center |-> [x |-> 50, y |-> 0]])
  /\ activeTouches[1].x = 0 /\ activeTouches[1].y = 0
  /\ activeTouches[2].x = 200 /\ activeTouches[2].y = 0

(* The Transform of a two-touch move against a two-touch reference *)
C7_Formula ==
  MovedWith(2) =>
    LET ref == initialGestureData[1]
        newCenter == getMidpoint(activeTouches[1], activeTouches[2])
        newDistance == getDistance(activeTouches[1], activeTouches[2])
        newAngle == getAngle(activeTouches[1], activeTouches[2])
    IN /\ poseTransform.x = initialTransform.x + (newCenter.x - ref.center.x)
       /\ poseTransform.y = initialTransform.y + (newCenter.y - ref.center.y)
       /\ poseTransform.scale =
            Clamp(NumMul(initialTransform.scale, NumDiv(newDistance, ref.distance)))
       /\ poseTransform.rotation = initialTransform.rotation + (newAngle - ref.angle)

C8_OneTouchTransform ==
  MovedWith(1) =>
    LET ref == initialGestureData[1]
        touch == activeTouches[1]
    IN poseTransform =
         [x |-> initialTransform.x + (touch.x - ref.center.x),
          y |-> initialTransform.y + (touch.y - ref.center.y),
          scale |-> initialTransform.scale,
          rotation |-> initialTransform.rotation]

(* C9: a touch-move that delivers the touches the touch-move before it     *)
(* delivered, in the same gesture segment, publishes the same Transform.   *)
C9_RepeatedMoveIsIdempotent ==
  [][ ( /\ lastEvent \in MoveEvents
        /\ IsTouchMoveStep
        /\ activeTouches' = activeTouches )
      => poseTransform' = poseTransform ]_vars

(* C9 happens: a move that changed the Transform has been repeated with    *)
(* the same touches.                                                       *)
C9_Witness ==
  /\ lastEvent = "touchmove repeated"
  /\ initialGestureData # NULL
  /\ poseTransform # initialTransform

C11_OrderIndependent ==
  [][ ( /\ IsTouchMoveStep
        /\ Len(activeTouches') = 2
        /\ initialGestureData # NULL
        /\ refTouches = 2 )
      => poseTransform' =
           TwoTouchTransform(TouchList(fingers'), initialGestureData[1], initialTransform) ]_vars

(* C12, as amended: for the points a, b of the grid whose direction is a   *)
(* multiple of 45 degrees, getAngle(a, b) and getAngle(b, a) differ by     *)
(* exactly 180 degrees when a # b, and both are 0 when a = b.              *)
C12_OppositeAngles ==
  (geometry # NULL /\ geometry[1].measured) =>
    LET m == geometry[1]
    IN IF m.a = m.b THEN m.ab = 0 /\ m.ba = 0
       ELSE Abs(m.ab - m.ba) = 180

(* C12 happens: the angles of two distinct points have been measured, the  *)
(* first being in the first quadrant.                                      *)
C12_Witness ==
  /\ geometry # NULL
  /\ geometry[1].measured
  /\ geometry[1].ab = 45
  /\ geometry[1].ba = -135

(* C12 as the specification words it: angle(a, b) = -angle(b, a). *)
C12_AsWritten ==
  (geometry # NULL /\ geometry[1].measured) => geometry[1].ab = -geometry[1].ba

(* Every callback of the coaching that was pending has run: no connection  *)
(* is being made, no promise of a connection is pending, no onopen awaits  *)
(* the microphone, no onclose is due and no stopLiveSession is in flight.  *)
Quiescent ==
  /\ stops.output = 0
  /\ stops.input = 0
  /\ \A s \in 1..Len(sessions) :
       /\ sessions[s].conn # "connecting"
       /\ sessions[s].promise # "pending"
       /\ sessions[s].onopen # "awaitMic"
       /\ ~sessions[s].onclose
       /\ sessions[s].stopsWaiting = 0

(* A stopLiveSession has run to its end on session s *)
TornDown(s) == sessions[s].promise # "none" /\ sessions[s].stopped

(* C13: after a teardown of the coaching session, and once every pending   *)
(* callback has run, no resource of the session is held: the sampler is    *)
(* not scheduled, the microphone has no live track, the input and output   *)
(* audio contexts are closed and the session handle is cleared.            *)
C13_TeardownReleasesAll ==
  (Quiescent /\ ~isLiveCoaching) =>
    \A s \in 1..Len(sessions) :
      TornDown(s) =>
        /\ sessions[s].interval # "scheduled"
        /\ sessions[s].mic # "live"
        /\ sessions[s].inCtx # "open"
        /\ sessions[s].outCtx # "open"
        /\ liveSessionRef # s

(* C14: once the callbacks have run, a session that failed (error          *)
(* callback, close by the remote end, or rejected connection) has been     *)
(* torn down: the coaching flag is off and a notice was raised for it.     *)
C14_FailureTornDownWithNotice ==
  Quiescent =>
    \A s \in 1..Len(sessions) :
      (sessions[s].closedBy \in {"remote", "error"} \/ sessions[s].promise = "rejected")
        => ~isLiveCoaching /\ sessions[s].noticed

(* C15: a startLiveSession that failed in its try block holds no resource  *)
(* afterwards: its output audio context is not open, and the coaching flag *)
(* is off.                                                                 *)
C15_FailedStartReleases ==
  \A s \in 1..Len(sessions) :
    sessions[s].promise = "none" => sessions[s].outCtx # "open" /\ ~isLiveCoaching

(* C16: a frame or a microphone chunk is sent to the session only while    *)
(* its connection is open, and none is sent, and no tick of the sampler    *)
(* runs, after stopLiveSession has completed.                              *)
C16_SendsOnlyWhileOpen ==
  /\ lastSend # NULL => lastSend[1].conn = "open" /\ ~lastSend[1].afterStop
  /\ lastFrame # NULL => ~lastFrame[1].afterStop

(* C17: no send of a frame or of a microphone chunk ends in an unhandled   *)
(* exception or an unhandled promise rejection.                            *)
C17_NoUnhandledSend == ~unhandled

(* C18: the shared Transform is changed only by a touch-move on the        *)
(* overlay or by a reset to identity (pose cleared, new pose generated);   *)
(* a tick of the sampler, a photo, a zoom change, a camera flip and the    *)
(* start or stop of the coaching leave it unchanged.                       *)
C18_TransformWriters ==
  [][ /\ poseTransform' # poseTransform =>
           \/ IsTouchMoveStep
           \/ lastEvent' = "reset" /\ poseTransform' = INITIAL_TRANSFORM
      /\ ( \/ lastFrame' # lastFrame
           \/ lastSend' # lastSend
           \/ gallery' # gallery
           \/ zoomLevel' # zoomLevel
           \/ facingMode' # facingMode
           \/ isLiveCoaching' # isLiveCoaching
           \/ sessions' # sessions ) => poseTransform' = poseTransform ]_vars

(* A tick has composited, while the coaching is on, a Transform a gesture  *)
(* moved away from identity, and the Transform is still that one.          *)
C18_Witness ==
  /\ isLiveCoaching
  /\ lastFrame # NULL
  /\ lastFrame[1].published # INITIAL_TRANSFORM
  /\ poseTransform = lastFrame[1].published
  /\ lastEvent \in MoveEvents

(* C19: at every tick of the sampler the Transform used for compositing is *)
(* the value most recently published by the gesture path or a reset.       *)
C19_TickUsesLatest ==
  lastFrame # NULL => lastFrame[1].used = lastFrame[1].published

(* C20: whenever no pose is active the Transform is identity, and it is    *)
(* identity in the state right after a pose is cleared or a newly          *)
(* generated pose becomes active.                                          *)
C20_IdentityWithoutPose ==
  /\ activePose = NoPose => poseTransform = INITIAL_TRANSFORM
  /\ lastEvent = "reset" => poseTransform = INITIAL_TRANSFORM

(* The pose has been cleared after gestures had moved the Transform: the   *)
(* baseline a second finger took is not identity, the Transform is.        *)
C20_Witness ==
  /\ activePose = NoPose
  /\ lastEvent = "reset"
  /\ initialTransform # INITIAL_TRANSFORM
  /\ poseTransform = INITIAL_TRANSFORM

(* C21: every playback buffer starts at the later of the time it arrived   *)
(* and the end of the buffer scheduled before it in the session (the time  *)
(* it arrived, for the first one): no two buffers overlap, they play in    *)
(* the order they arrived, and a buffer that arrives before its            *)
(* predecessor ends starts at the predecessor's end.                       *)
C21_PlaybackBackToBack ==
  \A i \in 1..Len(scheduled) :
    LET b == scheduled[i]
    IN IF i > 1 /\ scheduled[i - 1].ctx = b.ctx
       THEN LET prev == scheduled[i - 1]
            IN /\ b.start >= prev.end
               /\ b.start >= b.at
               /\ b.start \in {b.at, prev.end}
               /\ b.at < prev.end => b.start = prev.end
       ELSE b.start = b.at

(* A buffer arrived while its predecessor was still to play, and a third   *)
(* one after the second had ended                                          *)
C21_Witness ==
  /\ Len(scheduled) = 3
  /\ scheduled[2].at < scheduled[1].end
  /\ scheduled[2].start = scheduled[1].end
  /\ scheduled[3].at > scheduled[2].end
  /\ scheduled[3].start = scheduled[3].at

(* C22: a pose generation that fails leaves the active pose and the        *)
(* Transform as they are, raises a notice and ends the generation; the     *)
(* notice is cleared by a timer: while it shows a timer is pending, and a  *)
(* timer that fires clears the notice.                                     *)
C22_FailedGenerationKeepsPose ==
  [][ /\ errorTimers' = errorTimers + 1 =>
           /\ isGeneratingPose /\ ~isGeneratingPose'
           /\ activePose' = activePose
           /\ poseTransform' = poseTransform
           /\ error' = GenerateNotice
      /\ error' = GenerateNotice => errorTimers' > 0
      /\ errorTimers' = errorTimers - 1 => error' = NoError ]_vars

(* A generation has failed while a pose moved by a gesture was active *)
C22_Witness ==
  /\ error = GenerateNotice
  /\ errorTimers > 0
  /\ ~isGeneratingPose
  /\ activePose # NoPose
  /\ poseTransform # INITIAL_TRANSFORM

(* C23: for every pixel the transparency post-process gives the colour     *)
(* (255, 255, 255); the alpha is 0 when (r + g + b) / 3 < 20 and otherwise *)
(* the integer nearest to (r + g + b) / 3.                                 *)
C23_WhiteWithLumaAlpha ==
  (pixel # NULL /\ pixel[1].processed) =>
    LET p == pixel[1]
        o == p.out[1]
        sum == p.r + p.g + p.b
    IN /\ o.r = 255 /\ o.g = 255 /\ o.b = 255
       /\ o.a \in 0..255
       /\ IF sum < 60 THEN o.a = 0
          ELSE 3 * o.a - sum \in {-1, 0, 1}

(* The pixel (20, 20, 21), of luma 20.33, has been given alpha 20 *)
C23_Witness ==
  /\ pixel # NULL
  /\ pixel[1].processed
  /\ pixel[1].r = 20 /\ pixel[1].g = 20 /\ pixel[1].b = 21
  /\ pixel[1].out[1].a = 20

(* C23 as the specification words it: the alpha of a pixel of luma 20 or   *)
(* more equals (r + g + b) / 3.                                            *)
C23_AsWritten ==
  (pixel # NULL /\ pixel[1].processed) =>
    LET p == pixel[1]
        o == p.out[1]
        sum == p.r + p.g + p.b
    IN /\ o.r = 255 /\ o.g = 255 /\ o.b = 255
       /\ IF sum < 60 THEN o.a = 0 ELSE 3 * o.a = sum

(* C24: a microphone that cannot be acquired is reported: the step in      *)
(* which onopen learns that getUserMedia failed leaves a notice showing,   *)
(* and the coaching session goes on.                                       *)
C24_HardwareFailureRaisesNotice ==
  [][ \A s \in 1..Len(sessions) :
        (sessions[s].mic # "denied" /\ sessions'[s].mic = "denied") =>
          /\ error' # NoError
          /\ isLiveCoaching' = isLiveCoaching
          /\ sessions'[s].interval = "scheduled" ]_vars

(* The zoom or the torch has been answered in this step *)
IsConstraintAnswerStep ==
  \/ zoomRequests' = zoomRequests - 1
  \/ /\ Len(captures) > 0
     /\ \/ Len(captures') = Len(captures) - 1
        \/ \E c \in 1..Len(captures) :
             captures[c].phase = "torch" /\ captures' = [captures EXCEPT ![c].phase = "delay"]

(* C25: the answer of the hardware to a zoom or torch request, accepted or *)
(* rejected, never changes the notice; a zoom request is gone after its    *)
(* answer, and a capture whose torch request is rejected adds its photo to *)
(* the gallery in the step of the rejection.                               *)
C25_UnsupportedCapabilityIsSilent ==
  [][ /\ IsConstraintAnswerStep => error' = error
      /\ (Len(captures') = Len(captures) - 1) => Len(gallery') = Len(gallery) + 1
      /\ (zoomRequests' # zoomRequests \/ captures' # captures \/ gallery' # gallery)
           => error' = error ]_vars

(* The photo of a capture whose torch request was rejected is in the       *)
(* gallery, a zoom request has been answered, and no notice shows          *)
C25_Witness ==
  /\ Len(gallery) = 1
  /\ gallery[1].torch = "rejected"
  /\ captures = <<>>
  /\ zoomLevel = 200
  /\ zoomRequests = 0
  /\ error = NoError

(* C26: a capture appends exactly one photo to the gallery; a photo of a   *)
(* live camera is mirrored exactly when that camera is the front one, and  *)
(* never holds the overlay; the step leaves the Transform, the pose and    *)
(* the coaching session as they are.                                       *)
C26_OnePhotoMirroredForFront ==
  [][ gallery' # gallery =>
        /\ Len(gallery') = Len(gallery) + 1
        /\ LET photo == gallery'[Len(gallery')]
           IN /\ photo.live => (photo.mirrored <=> photo.camera = "user")
              /\ ~photo.overlay
        /\ UNCHANGED <<poseTransform, activePose, coachVars>> ]_vars

(* C29: the frame a tick composes shows the video in the orientation the   *)
(* viewfinder shows it in, under an overlay drawn as on the screen.        *)
C29_CompositeMatchesScreen ==
  lastFrame # NULL => lastFrame[1].videoMirrored = lastFrame[1].screenMirrored

(* C30: at most one camera stream has live tracks: every stream that is    *)
(* not the current one has been stopped.                                   *)
C30_OneLiveCameraStream ==
  \A i \in 1..Len(cameraStreams) : cameraStreams[i].live => i = stream

(* C27: after a touch-start that lists no touch or more than two touches   *)
(* no gesture reference is recorded: the gesture state is idle, whatever   *)
(* reference there was before.                                             *)
C27_CrowdedStartIsIdle ==
  (lastEvent = "touchstart" /\ Len(activeTouches) \notin {1, 2}) => initialGestureData = NULL

(* canvasScaleFactor / max(screenW / videoW, screenH / videoH), from the   *)
(* whole numbers: canvasW / screenW where the width ratio is the larger,   *)
(* (canvasW * videoH) / (videoW * screenH) otherwise                       *)
ReprojectionRatio(screen, video) ==
  LET canvasW == video.w \div 2
  IN IF screen.w * video.h >= screen.h * video.w
     THEN Ratio(canvasW, screen.w)
     ELSE Ratio(canvasW * video.h, video.w * screen.h)

(* C28: with a pose image, the tick translates to the centre of the        *)
(* raster, then by the translation of the Transform times conversionRatio, *)
(* then rotates by its rotation, then scales by its scale, and draws the   *)
(* image in a rectangle of screenW * conversionRatio by screenH *          *)
(* conversionRatio centred on the origin, where conversionRatio is         *)
(* canvasScaleFactor / max(screenW / videoW, screenH / videoH).            *)
C28_Reprojection ==
  (composite # NULL /\ composite[1].drawn /\ composite[1].hasImage) =>
    LET c == composite[1]
        calls == c.calls
        ratio == ReprojectionRatio(c.screen, c.video)
        w == Ratio(c.screen.w * ratio.n, ratio.d)
        h == Ratio(c.screen.h * ratio.n, ratio.d)
    IN /\ Len(calls) = 5
       /\ calls[1].op = "translate"
       /\ calls[1].x = Ratio(c.video.w \div 2, 2)
       /\ calls[1].y = Ratio(c.video.h \div 2, 2)
       /\ calls[2].op = "translate"
       /\ calls[2].x = Ratio(c.transform.x * ratio.n, ratio.d)
       /\ calls[2].y = Ratio(c.transform.y * ratio.n, ratio.d)
       /\ calls[3].op = "rotate"
       /\ calls[3].degrees = c.transform.rotation
       /\ calls[4].op = "scale"
       /\ calls[4].x = c.transform.scale
       /\ calls[4].y = c.transform.scale
       /\ calls[5].op = "drawImage"
       /\ calls[5].w = w
       /\ calls[5].h = h
       /\ calls[5].x = Ratio(0 - w.n, 2 * w.d)
       /\ calls[5].y = Ratio(0 - h.n, 2 * h.d)

(* A panned, rotated and scaled pose has been drawn over a video whose     *)
(* height ratio is the larger one and whose width is odd                   *)
C28_Witness ==
  /\ composite # NULL
  /\ composite[1].drawn
  /\ composite[1].hasImage
  /\ composite[1].transform = [x |-> 52, y |-> 21, scale |-> Root(1, 4), rotation |-> -450]
  /\ composite[1].screen = [w |-> 390, h |-> 844]
  /\ composite[1].video = [w |-> 641, h |-> 481]
  /\ composite[1].calls[2].x # Ratio(0, 1)

(* C31: once no load of a pose image is under way, the image the sampler   *)
(* draws is the image of the active pose (or none, when its load failed),  *)
(* and none when no pose is active.                                        *)
C31_ImageOfActivePose ==
  poseImages.loading = {} => poseImages.poseImageRef \in {0, poseImages.active}

(* The sessions whose sampler timer is scheduled *)
LiveSamplers == {s \in 1..Len(sessions) : sessions[s].interval = "scheduled"}

(* The sessions whose connection is being made or is open *)
LiveConnections == {s \in 1..Len(sessions) : sessions[s].conn \in {"connecting", "open"}}

(* C32: at most one connection and at most one sampler timer are live, and *)
(* a live one is the one the refs hold: none has been overwritten.         *)
C32_OneSessionOneSampler ==
  /\ Cardinality(LiveConnections) <= 1
  /\ Cardinality(LiveSamplers) <= 1
  /\ \A s \in LiveSamplers : videoIntervalRef = s

(* A call of stopLiveSession is suspended at one of its awaits *)
StopRunning ==
  \/ stops.output > 0
  \/ stops.input > 0
  \/ \E s \in 1..Len(sessions) : sessions[s].stopsWaiting > 0

C34_ResetNotUndone ==
  [][ (lastEvent = "reset" /\ IsTouchMoveStep /\ fingers' = fingers /\ Len(fingers) = 1)
        => poseTransform' = INITIAL_TRANSFORM ]_vars

(* C35: at most one call of handleGeneratePose is past its guard at a      *)
(* time, the generating flag is on exactly while one is, and a generation  *)
(* that is running ends with the flag off, so that the next request is     *)
(* taken.                                                                  *)
C35_OneGenerationAtATime ==
  /\ [](generations <= 1)
  /\ [](isGeneratingPose <=> generations = 1)
  /\ (isGeneratingPose ~> ~isGeneratingPose)

(* A generation is running that was requested after an earlier one failed  *)
(* (its notice still shows)                                                *)
C35_Witness ==
  /\ error = GenerateNotice
  /\ isGeneratingPose
  /\ generations = 1

(* C36: a timer set by a failed pose generation clears no notice but that  *)
(* of the failed generation: a notice of the camera or of the connection   *)
(* that shows when the timer fires still shows after it.                   *)
C36_TimerClearsOwnNotice ==
  [][ (errorTimers' = errorTimers - 1 /\ error \notin {NoError, GenerateNotice})
        => error' = error ]_vars

(* C37: the selection is empty or an index of the gallery, and a deletion  *)
(* that empties the gallery clears the selection and closes the gallery.   *)
C37_SelectionInGallery ==
  /\ [](selectedImageIndex # NULL =>
          (0 <= selectedImageIndex[1] /\ selectedImageIndex[1] < Len(gallery)))
  /\ [][ (Len(gallery') < Len(gallery) /\ Len(gallery') = 0)
           => (selectedImageIndex' = NULL /\ ~isGalleryOpen') ]_vars

(* The last photo of three was under review and has been deleted: the      *)
(* selection has moved to the photo before it                              *)
C37_Witness ==
  /\ nLive = MaxLiveEvents
  /\ Len(gallery) = MaxLiveEvents - 1
  /\ selectedImageIndex = Some(Len(gallery) - 1)
  /\ isGalleryOpen

(* C38: while the camera reports a zoom range, the zoom level is a number  *)
(* of that range: after camera start, after a scrub move and after a tap.  *)
C38_ZoomWithinCapabilities ==
  zoomCapabilities # NULL =>
    /\ zoomLevel # NotANumber
    /\ zoomCapabilities.min <= zoomLevel
    /\ zoomLevel <= zoomCapabilities.max

(* C39: a flip of the camera during the coaching tears the session down.   *)
(* Once the stopLiveSession of the flip and every pending callback have    *)
(* run, the coaching flag is off and the sampler, the microphone and both  *)
(* audio contexts of the session are released.                             *)
C39_FlipTearsDown ==
  Quiescent =>
    \A s \in 1..Len(sessions) :
      TornDown(s) =>
        /\ ~isLiveCoaching
        /\ sessions[s].interval # "scheduled"
        /\ sessions[s].mic # "live"
        /\ sessions[s].inCtx # "open"
        /\ sessions[s].outCtx # "open"

====
